---------------------------- MODULE Spec2Model ----------------------------
(***************************************************************************)
(* A model of the agent discovery and access-control core of the MCP       *)
(* Gateway Registry:                                                       *)
(*   - RegistryDiscoveryClient._get_token (the credential cache),          *)
(*   - _filter_agents_by_access (the catalog access filter),               *)
(*   - discover_agents_by_skills and discover_agents_semantic,             *)
(*   - check_agent_health, get_agent, list_agents and the management       *)
(*     routes register_agent, update_agent, delete_agent, toggle_agent,    *)
(*   - BookingDatabaseManager of the flight booking agent.                 *)
(* Each component has its own specification over the shared variables; the *)
(* variables of the other components keep their initial values.            *)
(***************************************************************************)
EXTENDS Integers, Sequences, FiniteSets, TLC

VARIABLES
    now,               \* the wall clock read by time.time(), in seconds
    token,             \* RegistryDiscoveryClient.token (NoToken models None)
    token_expires_at,  \* RegistryDiscoveryClient.token_expires_at
    pc,                \* per caller: where its _get_token coroutine stands
    current_time,      \* per caller: the local current_time of _get_token
    reqId,             \* per caller: the exchange it has in flight (0: none)
    ret,               \* per caller: the value _get_token returned
    exchanges,         \* number of POSTs sent to the token endpoint so far
    calls,             \* number of _get_token calls started so far
    winVals,           \* history: values returned by cache hits in the current window
    lastExch,          \* history: the last exchange installed in the cache
    catalog,           \* agent_service.get_all_agents(): the AgentCards, in store order
    enabled,           \* agent_service.is_agent_enabled: path -> BOOLEAN
    resp,              \* the last request served by the registry and its response
    index,             \* faiss_service: path -> the entry of the search index
    reqs,              \* per request slot: the management request it runs
    regClock,          \* number of management requests started (the clock of registered_at)
    flights,           \* table flights: flight id -> available_seats
    bookings,          \* tables bookings and booking_passengers: the rows, by booking id
    conns              \* per database connection: the call it runs and its locals

tokenVars == <<now, token, token_expires_at, pc, current_time, reqId, ret,
               exchanges, calls, winVals, lastExch>>

registryVars == <<catalog, enabled, resp>>

mgmtVars == <<index, reqs, regClock>>

bookingVars == <<flights, bookings, conns>>

vars == <<now, token, token_expires_at, pc, current_time, reqId, ret,
          exchanges, calls, winVals, lastExch, catalog, enabled, resp,
          index, reqs, regClock, flights, bookings, conns>>

(***************************************************************************)
(* Bounds of the model.                                                    *)
(***************************************************************************)
NumCallers == 2
MaxCalls == 4
MaxTime == 90
TickLen == 30
MaxHits == 2
NumConns == 2
InitialSeats == 2
MaxBookings == 3
MaxPassengers == 2
MaxReleases == 2
NumRequests == 2
MaxStarted == 2

Callers == 1..NumCallers

(***************************************************************************)
(* RegistryDiscoveryClient (the credential cache)                          *)
(***************************************************************************)
NoToken == 0

\* the safety margin of line 58
SafetyMargin == 60

\* token_data.get("expires_in", 300)
DefaultExpiresIn == 300

\* what the provider may put in "expires_in" (Absent: the key is missing)
Absent == -1

ExpiresInChoices == {60, 61, 120, Absent}

ExpiresIn(e) == IF e = Absent THEN DefaultExpiresIn ELSE e

\* history record of an installed exchange: its token, the clock reading its
\* call took, the lifetime the provider gave, and the token it replaced
\* no request has been served by the registry
NoResponse == [kind |-> "none"]

NoExchange == [tok |-> NoToken, at |-> 0, expires_in |-> 0, prev |-> NoToken]

\* the budget of the model: a call may start while fewer than MaxCalls have
CallBudget == calls < MaxCalls

\* Reusable without the safety margin
ReusableNoMargin(tok, expires_at, t) == tok # NoToken /\ t < expires_at

\* line 58: self.token and current_time < self.token_expires_at - 60
Reusable(tok, expires_at, t) == tok # NoToken /\ t < expires_at - SafetyMargin

\* the history of the values cache hits returned in the current window: the
\* window ends as soon as the cached token is no longer reusable
Window(vals, tok, expires_at, t) ==
    IF Reusable(tok, expires_at, t) THEN vals ELSE {}

TokenInit ==
    /\ now = 0
    /\ token = NoToken
    /\ token_expires_at = 0
    /\ pc = [c \in Callers |-> "idle"]
    /\ current_time = [c \in Callers |-> 0]
    /\ reqId = [c \in Callers |-> 0]
    /\ ret = [c \in Callers |-> NoToken]
    /\ exchanges = 0
    /\ calls = 0
    /\ winVals = {}
    /\ lastExch = NoExchange
    /\ catalog = <<>>
    /\ enabled = <<>>
    /\ resp = NoResponse
    /\ index = <<>>
    /\ reqs = <<>>
    /\ regClock = 0
    /\ flights = <<>>
    /\ bookings = <<>>
    /\ conns = <<>>

\* time passes (between any two steps of the coroutines)
Tick ==
    /\ now + TickLen <= MaxTime
    /\ now' = now + TickLen
    /\ winVals' = Window(winVals, token, token_expires_at, now')
    /\ UNCHANGED <<token, token_expires_at, pc, current_time, reqId, ret,
                   exchanges, calls, lastExch>>
    /\ UNCHANGED <<registryVars, mgmtVars, bookingVars>>

\* lines 57-60: the call reads the clock and returns the cached token
CacheHit(c) ==
    /\ pc[c] = "idle"
    /\ CallBudget
    /\ Reusable(token, token_expires_at, now)
    /\ calls' = calls + 1
    /\ current_time' = [current_time EXCEPT ![c] = now]
    /\ ret' = [ret EXCEPT ![c] = token]
    /\ pc' = [pc EXCEPT ![c] = "done"]
    /\ winVals' = winVals \cup {token}
    /\ UNCHANGED <<now, token, token_expires_at, reqId, exchanges, lastExch>>
    /\ UNCHANGED <<registryVars, mgmtVars, bookingVars>>

\* lines 57-73: no reusable token: the call posts the client-credentials
\* request and is suspended at "async with session.post(...)"
StartExchange(c) ==
    /\ pc[c] = "idle"
    /\ CallBudget
    /\ ~Reusable(token, token_expires_at, now)
    /\ calls' = calls + 1
    /\ current_time' = [current_time EXCEPT ![c] = now]
    /\ exchanges' = exchanges + 1
    /\ reqId' = [reqId EXCEPT ![c] = exchanges + 1]
    /\ ret' = [ret EXCEPT ![c] = NoToken]
    /\ pc' = [pc EXCEPT ![c] = "posting"]
    /\ UNCHANGED <<now, token, token_expires_at, winVals, lastExch>>
    /\ UNCHANGED <<registryVars, mgmtVars, bookingVars>>

\* line 82 leaving the expiry of the token cached before
InstalledExpiryKept(old_expires_at, t, e) == old_expires_at

\* line 82: self.token_expires_at = current_time + expires_in
InstalledExpiry(old_expires_at, t, e) == t + ExpiresIn(e)

\* lines 74-77 and 87-89 dropping the cached token when the exchange fails
CacheClearedOnFailure(tok, expires_at) ==
    [token |-> NoToken, token_expires_at |-> 0]

\* lines 74-77 and 87-89: the failing paths assign neither self.token nor
\* self.token_expires_at
CacheAfterFailure(tok, expires_at) ==
    [token |-> tok, token_expires_at |-> expires_at]

\* lines 79-85: a 200 response: token and expiry are stored (no await lies
\* between the two assignments) and the new token is returned.  The expiry
\* counts from current_time, the clock reading taken before the request.
\* Each exchange yields its own token value, named by the exchange.
InstallToken(c, e) ==
    /\ pc[c] = "posting"
    /\ token' = reqId[c]
    /\ token_expires_at' = InstalledExpiry(token_expires_at, current_time[c], e)
    /\ ret' = [ret EXCEPT ![c] = reqId[c]]
    /\ pc' = [pc EXCEPT ![c] = "done"]
    /\ lastExch' = [tok |-> reqId[c], at |-> current_time[c],
                    expires_in |-> ExpiresIn(e), prev |-> token]
    /\ winVals' = Window(winVals, token', token_expires_at', now)
    /\ UNCHANGED <<now, current_time, reqId, exchanges, calls>>
    /\ UNCHANGED <<registryVars, mgmtVars, bookingVars>>

\* lines 74-77 and 87-89: a non-200 status or an aiohttp.ClientError: the
\* call raises, the cache is left as it was
ExchangeFails(c) ==
    /\ pc[c] = "posting"
    /\ pc' = [pc EXCEPT ![c] = "failed"]
    /\ token' = CacheAfterFailure(token, token_expires_at).token
    /\ token_expires_at' =
           CacheAfterFailure(token, token_expires_at).token_expires_at
    /\ UNCHANGED <<now, current_time, reqId, ret, exchanges, calls, winVals,
                   lastExch>>
    /\ UNCHANGED <<registryVars, mgmtVars, bookingVars>>

\* the caller has its answer and may call again
Return(c) ==
    /\ pc[c] \in {"done", "failed"}
    /\ pc' = [pc EXCEPT ![c] = "idle"]
    /\ ret' = [ret EXCEPT ![c] = NoToken]
    /\ reqId' = [reqId EXCEPT ![c] = 0]
    /\ current_time' = [current_time EXCEPT ![c] = 0]
    /\ UNCHANGED <<now, token, token_expires_at, exchanges, calls, winVals,
                   lastExch>>
    /\ UNCHANGED <<registryVars, mgmtVars, bookingVars>>

\* _get_token as the event loop runs it: any number of callers interleave at
\* the awaits
GetToken(c) ==
    \/ CacheHit(c)
    \/ StartExchange(c)
    \/ \E e \in ExpiresInChoices : InstallToken(c, e)
    \/ ExchangeFails(c)
    \/ Return(c)

TokenNext == Tick \/ \E c \in Callers : GetToken(c)

Spec == TokenInit /\ [][TokenNext]_vars

\* the same client called sequentially: a call starts only when no other call
\* is suspended in an exchange
NoneInFlight == \A d \in Callers : pc[d] # "posting"

SeqGetToken(c) ==
    \/ NoneInFlight /\ CacheHit(c)
    \/ NoneInFlight /\ StartExchange(c)
    \/ \E e \in ExpiresInChoices : InstallToken(c, e)
    \/ ExchangeFails(c)
    \/ Return(c)

SeqNext == Tick \/ \E c \in Callers : SeqGetToken(c)

SpecSeq == TokenInit /\ [][SeqNext]_vars

(***************************************************************************)
(* Claims about the credential cache                                       *)
(***************************************************************************)
InFlight == {c \in Callers : pc[c] = "posting"}

\* a call of c starts in this step
Starts(c) == pc[c] = "idle" /\ pc'[c] # "idle"

\* C1: when several callers invoke _get_token concurrently while no reusable
\* token is cached, at no point are two credential exchanges in flight.
\* (Spec: violated, _get_token holds no lock across its awaits.)
C1_SingleFlight == Cardinality(InFlight) <= 1

\* C2: all the calls answered from the cache inside one window (a token is
\* cached and now < token_expires_at - 60 throughout) return the same value.
\* (Spec: violated, a second exchange left in flight by the race of C1
\* replaces the cached token inside the window.)
C2_SameValueInWindow == Cardinality(winVals) <= 1

\* the part of C2 that holds under every interleaving: a call that finds a
\* reusable token returns the cached value and sends no request
C2_HitReturnsCached ==
    [][\A c \in Callers :
        (Starts(c) /\ Reusable(token, token_expires_at, now))
            => /\ pc'[c] = "done"
               /\ ret'[c] = token
               /\ exchanges' = exchanges
               /\ token' = token]_vars

\* C3 as stated: in sequential use, the calls that follow a successful
\* exchange reuse the new token without a further exchange, whatever
\* expires_in the provider returned; stated for the calls made before the
\* clock has moved on from the reading the exchange's call took.
\* (SpecSeq: violated when expires_in <= 60.)
C3_FollowingCallsReuse ==
    [][\A c \in Callers :
        (Starts(c) /\ lastExch.tok # NoToken /\ now = lastExch.at)
            => /\ pc'[c] = "done"
               /\ ret'[c] = lastExch.tok
               /\ exchanges' = exchanges]_vars

\* C3 amended: in sequential use, a call made at or after the boundary of the
\* last installed token (or with no token installed) performs an exchange and
\* never returns the old token; a successful exchange stores its own token
\* with expires_at = (the call's clock reading) + expires_in; and every call
\* made before that token's boundary, clock reading + expires_in - 60, reuses
\* it without a further exchange.
C3_OneExchangePerBoundary ==
    [][\A c \in Callers :
        /\ Starts(c) =>
             IF /\ lastExch.tok # NoToken
                /\ now < lastExch.at + lastExch.expires_in - SafetyMargin
             THEN /\ pc'[c] = "done"
                  /\ ret'[c] = lastExch.tok
                  /\ exchanges' = exchanges
             ELSE /\ pc'[c] = "posting"
                  /\ exchanges' = exchanges + 1
                  /\ ret'[c] = NoToken
        /\ (pc[c] = "posting" /\ pc'[c] = "done") =>
             /\ token' = ret'[c]
             /\ token' # token
             /\ token_expires_at' = current_time[c] + lastExch'.expires_in
             /\ lastExch'.at = current_time[c]]_vars

\* C3 witness: a second token has replaced a first one after its boundary was
\* passed, and a following call has been answered with the new token from
\* the cache
C3_Witness ==
    \E c \in Callers :
        /\ pc[c] = "done"
        /\ reqId[c] = 0
        /\ lastExch.prev # NoToken
        /\ ret[c] = lastExch.tok
        /\ lastExch.at > 0

(***************************************************************************)
(* The registry: AgentCards, user contexts, _filter_agents_by_access       *)
(***************************************************************************)
\* the elements of a list
ToSet(list) == {list[i] : i \in 1..Len(list)}

\* dict.get(key, default)
Get(dict, key, default) == IF key \in DOMAIN dict THEN dict[key] ELSE default

Paths == {"/a", "/b", "/c"}

Usernames == {"alice", "bob"}

\* "internal" is no visibility the filter knows
Visibilities == {"public", "private", "group-restricted", "internal"}

\* a skill of an AgentCard
Skill(id, name) == [id |-> id, name |-> name]

\* an AgentCard, with the fields the filter and the discovery routes read
AgentCard(path, visibility, registered_by, allowed_groups, skills, tags, trust_level) ==
    [path |-> path, visibility |-> visibility,
     registered_by |-> registered_by, allowed_groups |-> allowed_groups,
     skills |-> skills, tags |-> tags, trust_level |-> trust_level]

\* a dict with the one optional key: absent, or present with one of the values
OptionalKey(key, values) ==
    {<<>>} \cup {[k \in {key} |-> v] : v \in values}

\* the user contexts nginx_proxied_auth may hand to a route: username is
\* always there, the other keys may be missing
UserContexts(usernames, groupLists, accessLists) ==
    {[username |-> u] @@ a @@ g @@ l :
        u \in usernames,
        a \in OptionalKey("is_admin", BOOLEAN),
        g \in OptionalKey("groups", groupLists),
        l \in OptionalKey("accessible_agents", accessLists)}

\* lines 139-164 with the admin override left out
AccessibleNoAdminOverride(agent, user_context) ==
    LET user_groups == ToSet(Get(user_context, "groups", <<>>))
        username == user_context["username"]
        accessible_agent_list == ToSet(Get(user_context, "accessible_agents", <<>>))
    IN  IF "all" \notin accessible_agent_list
           /\ agent.path \notin accessible_agent_list THEN FALSE
        ELSE IF agent.visibility = "public" THEN TRUE
        ELSE IF agent.visibility = "private"
             THEN agent.registered_by = username
        ELSE IF agent.visibility = "group-restricted"
             THEN ToSet(agent.allowed_groups) \cap user_groups # {}
        ELSE FALSE

\* lines 139-164 with a private agent also shown to the members of its groups
AccessiblePrivateByGroup(agent, user_context) ==
    LET user_groups == ToSet(Get(user_context, "groups", <<>>))
        username == user_context["username"]
        is_admin == Get(user_context, "is_admin", FALSE)
        accessible_agent_list == ToSet(Get(user_context, "accessible_agents", <<>>))
    IN  IF is_admin THEN TRUE
        ELSE IF "all" \notin accessible_agent_list
                /\ agent.path \notin accessible_agent_list THEN FALSE
        ELSE IF agent.visibility = "public" THEN TRUE
        ELSE IF agent.visibility = "private"
             THEN \/ agent.registered_by = username
                  \/ ToSet(agent.allowed_groups) \cap user_groups # {}
        ELSE IF agent.visibility = "group-restricted"
             THEN ToSet(agent.allowed_groups) \cap user_groups # {}
        ELSE FALSE

\* lines 139-164 with a group-restricted agent also shown to its owner
AccessibleGroupByOwner(agent, user_context) ==
    LET user_groups == ToSet(Get(user_context, "groups", <<>>))
        username == user_context["username"]
        is_admin == Get(user_context, "is_admin", FALSE)
        accessible_agent_list == ToSet(Get(user_context, "accessible_agents", <<>>))
    IN  IF is_admin THEN TRUE
        ELSE IF "all" \notin accessible_agent_list
                /\ agent.path \notin accessible_agent_list THEN FALSE
        ELSE IF agent.visibility = "public" THEN TRUE
        ELSE IF agent.visibility = "private"
             THEN agent.registered_by = username
        ELSE IF agent.visibility = "group-restricted"
             THEN \/ ToSet(agent.allowed_groups) \cap user_groups # {}
                  \/ agent.registered_by = username
        ELSE FALSE

\* lines 139-164 with the public rule tried before the UI-Scopes rule
AccessiblePublicFirst(agent, user_context) ==
    LET user_groups == ToSet(Get(user_context, "groups", <<>>))
        username == user_context["username"]
        is_admin == Get(user_context, "is_admin", FALSE)
        accessible_agent_list == ToSet(Get(user_context, "accessible_agents", <<>>))
    IN  IF is_admin THEN TRUE
        ELSE IF agent.visibility = "public" THEN TRUE
        ELSE IF "all" \notin accessible_agent_list
                /\ agent.path \notin accessible_agent_list THEN FALSE
        ELSE IF agent.visibility = "private"
             THEN agent.registered_by = username
        ELSE IF agent.visibility = "group-restricted"
             THEN ToSet(agent.allowed_groups) \cap user_groups # {}
        ELSE FALSE

\* lines 139-164 with an unknown visibility treated as public
AccessibleDefaultAllow(agent, user_context) ==
    LET user_groups == ToSet(Get(user_context, "groups", <<>>))
        username == user_context["username"]
        is_admin == Get(user_context, "is_admin", FALSE)
        accessible_agent_list == ToSet(Get(user_context, "accessible_agents", <<>>))
    IN  IF is_admin THEN TRUE
        ELSE IF "all" \notin accessible_agent_list
                /\ agent.path \notin accessible_agent_list THEN FALSE
        ELSE IF agent.visibility = "private"
             THEN agent.registered_by = username
        ELSE IF agent.visibility = "group-restricted"
             THEN ToSet(agent.allowed_groups) \cap user_groups # {}
        ELSE TRUE

\* lines 131-162, the body of the loop of _filter_agents_by_access: whether
\* the agent is appended to accessible; the first rule that matches decides
Accessible(agent, user_context) ==
    LET user_groups == ToSet(Get(user_context, "groups", <<>>))
        username == user_context["username"]
        is_admin == Get(user_context, "is_admin", FALSE)
        accessible_agent_list == ToSet(Get(user_context, "accessible_agents", <<>>))
    IN  IF is_admin THEN TRUE
        ELSE IF "all" \notin accessible_agent_list
                /\ agent.path \notin accessible_agent_list THEN FALSE
        ELSE IF agent.visibility = "public" THEN TRUE
        ELSE IF agent.visibility = "private"
             THEN agent.registered_by = username
        ELSE IF agent.visibility = "group-restricted"
             THEN ToSet(agent.allowed_groups) \cap user_groups # {}
        ELSE FALSE

\* a filter that puts each accessible agent in front of the earlier ones
RECURSIVE FilterPrepending(_, _)
FilterPrepending(agents, user_context) ==
    IF agents = <<>> THEN <<>>
    ELSE LET rest == FilterPrepending(Tail(agents), user_context)
         IN  IF Accessible(Head(agents), user_context)
             THEN rest \o <<Head(agents)>>
             ELSE rest

\* lines 116-164: the agents of the list the user may access, in list order
RECURSIVE _filter_agents_by_access(_, _)
_filter_agents_by_access(agents, user_context) ==
    IF agents = <<>> THEN <<>>
    ELSE LET rest == _filter_agents_by_access(Tail(agents), user_context)
         IN  IF Accessible(Head(agents), user_context)
             THEN <<Head(agents)>> \o rest
             ELSE rest

\* the inputs of the filter specification: lists of at most two AgentCards
\* with distinct paths, every visibility, owner and group list
GroupLists == {<<>>, <<"g1">>, <<"g1", "g2">>}

FilterCards(path) ==
    {AgentCard(path, v, o, g, <<>>, <<>>, "unverified") :
        v \in Visibilities, o \in Usernames, g \in GroupLists}

\* public and private cards for the three-agent lists
OwnedCards(path) ==
    {AgentCard(path, v, o, <<>>, <<>>, <<>>, "unverified") :
        v \in {"public", "private"}, o \in Usernames}

FilterCatalogs ==
    {<<>>}
    \cup {<<a>> : a \in FilterCards("/a") \cup FilterCards("/b")}
    \cup {<<a, b>> : a \in FilterCards("/a"), b \in FilterCards("/b")}
    \cup {<<b, a>> : a \in FilterCards("/a"), b \in FilterCards("/b")}
    \cup {<<c, a, b>> : c \in OwnedCards("/c"), a \in OwnedCards("/a"),
                        b \in OwnedCards("/b")}

FilterUsers ==
    UserContexts({"alice"}, {<<>>, <<"g1">>, <<"g2">>},
                 {<<>>, <<"all">>, <<"/a">>, <<"/b", "/a">>})

\* every agent of the list is enabled (agent_service's view of the list)
AllEnabled(agents) == [p \in {agents[i].path : i \in 1..Len(agents)} |-> TRUE]

FilterInit ==
    /\ now = 0
    /\ token = NoToken
    /\ token_expires_at = 0
    /\ pc = [c \in Callers |-> "idle"]
    /\ current_time = [c \in Callers |-> 0]
    /\ reqId = [c \in Callers |-> 0]
    /\ ret = [c \in Callers |-> NoToken]
    /\ exchanges = 0
    /\ calls = 0
    /\ winVals = {}
    /\ lastExch = NoExchange
    /\ catalog \in FilterCatalogs
    /\ enabled = AllEnabled(catalog)
    /\ resp = NoResponse
    /\ index = <<>>
    /\ reqs = <<>>
    /\ regClock = 0
    /\ flights = <<>>
    /\ bookings = <<>>
    /\ conns = <<>>

\* a call _filter_agents_by_access(agents, user_context) on the catalog
FilterCall(user_context) ==
    /\ resp = NoResponse
    /\ resp' = [kind |-> "filter",
                user_context |-> user_context,
                agents |-> catalog,
                accessible |-> _filter_agents_by_access(catalog, user_context)]
    /\ UNCHANGED <<catalog, enabled>>
    /\ UNCHANGED <<tokenVars, mgmtVars, bookingVars>>

FilterNext == \E u \in FilterUsers : FilterCall(u)

SpecFilter == FilterInit /\ [][FilterNext]_vars

(***************************************************************************)
(* Claims about _filter_agents_by_access                                   *)
(***************************************************************************)
\* the filter has answered
Filtered == resp.kind = "filter"

\* the agents given to the filter and those it returned
InputAgents == ToSet(resp.agents)
Shown(agent) == \E i \in 1..Len(resp.accessible) : resp.accessible[i] = agent

\* the principal of the request, as the claims describe it
IsAdmin(u) == "is_admin" \in DOMAIN u /\ u["is_admin"]
GroupsOf(u) == IF "groups" \in DOMAIN u THEN ToSet(u["groups"]) ELSE {}
PathAdmitted(agent, u) ==
    /\ "accessible_agents" \in DOMAIN u
    /\ \E i \in 1..Len(u["accessible_agents"]) :
           u["accessible_agents"][i] \in {"all", agent.path}

\* C5: for a principal with is_admin = true, filter returns every input
\* descriptor, whatever its visibility (unrecognized values included), owner
\* and allowed_groups, and whatever the principal's accessible_paths and
\* groups are.
C5_AdminSeesAll ==
    (Filtered /\ IsAdmin(resp.user_context)) => resp.accessible = resp.agents

\* C5 witness: an admin without any accessible list has been shown two agents
\* of another user, one of them with an unrecognized visibility
C5_Witness ==
    /\ Filtered
    /\ IsAdmin(resp.user_context)
    /\ "accessible_agents" \notin DOMAIN resp.user_context
    /\ Len(resp.accessible) = 2
    /\ \E a \in InputAgents :
           a.visibility = "internal" /\ a.registered_by = "bob" /\ Shown(a)
    /\ \E a \in InputAgents : a.visibility = "private" /\ Shown(a)

\* C6: for a non-admin principal whose accessible_paths admits the path, a
\* private descriptor is in the result if and only if its owner is the
\* principal; group membership never shows another user's private descriptor.
C6_PrivateOnlyToOwner ==
    Filtered =>
        \A a \in InputAgents :
            (/\ ~IsAdmin(resp.user_context)
             /\ PathAdmitted(a, resp.user_context)
             /\ a.visibility = "private")
            => (Shown(a) <=> a.registered_by = resp.user_context["username"])

\* C6 witness: the principal's own private agent is shown, and a private
\* agent of another user whose allowed_groups the principal belongs to is not
C6_Witness ==
    /\ Filtered
    /\ ~IsAdmin(resp.user_context)
    /\ \E a \in InputAgents :
           /\ a.visibility = "private"
           /\ PathAdmitted(a, resp.user_context)
           /\ a.registered_by = resp.user_context["username"]
           /\ Shown(a)
    /\ \E a \in InputAgents :
           /\ a.visibility = "private"
           /\ PathAdmitted(a, resp.user_context)
           /\ a.registered_by # resp.user_context["username"]
           /\ ToSet(a.allowed_groups) \cap GroupsOf(resp.user_context) # {}
           /\ ~Shown(a)

\* C7: for a non-admin principal whose accessible_paths admits the path, a
\* group-restricted descriptor is in the result if and only if allowed_groups
\* and the principal's groups share an element; ownership alone grants
\* nothing and an empty allowed_groups excludes every non-admin.
C7_GroupRestrictedByMembership ==
    Filtered =>
        \A a \in InputAgents :
            (/\ ~IsAdmin(resp.user_context)
             /\ PathAdmitted(a, resp.user_context)
             /\ a.visibility = "group-restricted")
            => (Shown(a) <=>
                  \E g \in ToSet(a.allowed_groups) : g \in GroupsOf(resp.user_context))

\* C7 witness: a group-restricted agent of another user is shown to a member
\* of one of its groups, and the principal's own group-restricted agent with
\* an empty allowed_groups is not
C7_Witness ==
    /\ Filtered
    /\ ~IsAdmin(resp.user_context)
    /\ \E a \in InputAgents :
           /\ a.visibility = "group-restricted"
           /\ PathAdmitted(a, resp.user_context)
           /\ a.registered_by # resp.user_context["username"]
           /\ Shown(a)
    /\ \E a \in InputAgents :
           /\ a.visibility = "group-restricted"
           /\ PathAdmitted(a, resp.user_context)
           /\ a.registered_by = resp.user_context["username"]
           /\ a.allowed_groups = <<>>
           /\ ~Shown(a)

C8_WitnessOtherPath ==
    /\ Filtered
    /\ ~IsAdmin(resp.user_context)
    /\ "accessible_agents" \in DOMAIN resp.user_context
    /\ resp.user_context["accessible_agents"] = <<"/a">>
    /\ \E a \in InputAgents : a.path = "/b" /\ a.visibility = "public" /\ ~Shown(a)
    /\ \E a \in InputAgents : a.path = "/a" /\ Shown(a)

\* C9: for a non-admin principal, a descriptor whose visibility is none of
\* public, private, group-restricted is never in the result, even when the
\* principal owns it, shares a group with it and has its path in
\* accessible_paths.
C9_UnknownVisibilityExcluded ==
    Filtered =>
        \A a \in InputAgents :
            (/\ ~IsAdmin(resp.user_context)
             /\ a.visibility \notin {"public", "private", "group-restricted"})
            => ~Shown(a)

\* C9 witness: an agent with visibility "internal" that the principal owns,
\* shares a group with and is entitled to by path has been left out
C9_Witness ==
    /\ Filtered
    /\ ~IsAdmin(resp.user_context)
    /\ \E a \in InputAgents :
           /\ a.visibility = "internal"
           /\ a.registered_by = resp.user_context["username"]
           /\ ToSet(a.allowed_groups) \cap GroupsOf(resp.user_context) # {}
           /\ PathAdmitted(a, resp.user_context)
           /\ "all" \notin ToSet(resp.user_context["accessible_agents"])
           /\ ~Shown(a)

(***************************************************************************)
(* discover_agents_by_skills                                               *)
(***************************************************************************)
\* str.lower() on the strings of the model
Lower(s) ==
    CASE s = "Book Flight" -> "book flight"
      [] s = "BOOK FLIGHT" -> "book flight"
      [] s = "Book_Flight" -> "book_flight"
      [] s = "CANCEL_BOOKING" -> "cancel_booking"
      [] s = "Cancel" -> "cancel"
      [] s = "Hotel Search" -> "hotel search"
      [] s = "Travel" -> "travel"
      [] s = "TRAVEL" -> "travel"
      [] s = "Booking" -> "booking"
      [] OTHER -> s

\* set(x.lower() for x in list)
LowerSet(list) == {Lower(x) : x \in ToSet(list)}

\* the weights of line 826, in percent
SkillWeight == 60
TagWeight == 20
TrustWeight == 20

\* max_results: int = Query(10, ge=1, le=100)
MinResults == 1
MaxResults == 100

\* lines 819-824, in percent; an unknown trust level boosts nothing
TrustBoost(trust_level) ==
    CASE trust_level = "unverified" -> 0
      [] trust_level = "community" -> 20
      [] trust_level = "verified" -> 50
      [] trust_level = "trusted" -> 100
      [] OTHER -> 0

\* lines 803-805: the ids and the names of the agent's skills, lowercased
AgentSkillKeys(agent) ==
    {Lower(agent.skills[i].id) : i \in 1..Len(agent.skills)}
    \cup {Lower(agent.skills[i].name) : i \in 1..Len(agent.skills)}

\* lines 796 and 807
SkillMatches(agent, skills) == LowerSet(skills) \cap AgentSkillKeys(agent)

\* lines 797 and 811-812 (tags None and tags [] both give no required tag)
TagMatches(agent, tags) ==
    IF LowerSet(tags) # {} THEN LowerSet(tags) \cap LowerSet(agent.tags) ELSE {}

\* the hundredths of p / (10000 * q) cut off instead of rounded
FloorHundredths(p, q) == p \div (100 * q)

\* round(x, 2) of the non-negative x = p / (10000 * q), in hundredths; an
\* exact tie goes to the even neighbour
RoundHundredths(p, q) ==
    LET d == 100 * q
        f == p \div d
        r == p % d
    IN  IF 2 * r > d THEN f + 1
        ELSE IF 2 * r < d THEN f
        ELSE IF f % 2 = 0 THEN f ELSE f + 1

\* lines 814-826 and 846: round(0.6 * skill_match_score + 0.2 *
\* tag_match_score + 0.2 * trust_boost, 2), in hundredths.  The sum is
\* computed exactly, over the common denominator of the two quotients.
RelevanceScore(agent, skills, tags) ==
    LET nReq == Cardinality(LowerSet(skills))
        nTag == Cardinality(LowerSet(tags))
        tagDen == IF nTag = 0 THEN 1 ELSE nTag
        p == SkillWeight * 100 * Cardinality(SkillMatches(agent, skills)) * tagDen
             + TagWeight * 100 * Cardinality(TagMatches(agent, tags)) * nReq
             + TrustWeight * TrustBoost(agent.trust_level) * nReq * tagDen
    IN  RoundHundredths(p, nReq * tagDen)

\* the fields of AgentInfo both discovery routes fill from the card; neither
\* route reads the enabled state into is_enabled
AgentInfo(agent) ==
    [path |-> agent.path,
     tags |-> agent.tags,
     skills |-> [i \in 1..Len(agent.skills) |-> agent.skills[i].name],
     num_skills |-> Len(agent.skills),
     is_enabled |-> TRUE,
     trust_level |-> agent.trust_level]

\* lines 843-849: the entry appended to matched_agents
MatchedEntry(agent, skills, tags) ==
    AgentInfo(agent) @@
    [relevance_score |-> RelevanceScore(agent, skills, tags),
     matched_skills |-> SkillMatches(agent, skills)]

\* lines 800-809 without the test of the skill matches
SkippedOnlyDisabled(agent, en, skills) == ~en[agent.path]

\* lines 800-809 without the test of the enabled state
SkippedOnlyUnmatched(agent, en, skills) == SkillMatches(agent, skills) = {}

\* lines 800-809: the agent is skipped when it is disabled or matches no skill
Skipped(agent, en, skills) ==
    \/ ~en[agent.path]
    \/ SkillMatches(agent, skills) = {}

\* lines 799-849: the loop over accessible_agents
RECURSIVE MatchedAgents(_, _, _, _)
MatchedAgents(agents, en, skills, tags) ==
    IF agents = <<>> THEN <<>>
    ELSE LET rest == MatchedAgents(Tail(agents), en, skills, tags)
         IN  IF Skipped(Head(agents), en, skills) THEN rest
             ELSE <<MatchedEntry(Head(agents), skills, tags)>> \o rest

\* an insertion that puts an entry in front of the entries of equal score
RECURSIVE InsertBeforeEqual(_, _)
InsertBeforeEqual(entry, sorted) ==
    IF sorted = <<>> THEN <<entry>>
    ELSE IF Head(sorted).relevance_score > entry.relevance_score
         THEN <<Head(sorted)>> \o InsertBeforeEqual(entry, Tail(sorted))
         ELSE <<entry>> \o sorted

\* list.sort(key=relevance_score, reverse=True) is stable: an entry goes
\* behind every entry already placed whose score is not lower
RECURSIVE InsertByRelevance(_, _)
InsertByRelevance(entry, sorted) ==
    IF sorted = <<>> THEN <<entry>>
    ELSE IF Head(sorted).relevance_score >= entry.relevance_score
         THEN <<Head(sorted)>> \o InsertByRelevance(entry, Tail(sorted))
         ELSE <<entry>> \o sorted

RECURSIVE SortInto(_, _)
SortInto(sorted, rest) ==
    IF rest = <<>> THEN sorted
    ELSE SortInto(InsertByRelevance(Head(rest), sorted), Tail(rest))

\* line 851
SortByRelevance(entries) == SortInto(<<>>, entries)

\* line 852 without the slice
TruncateKeepsAll(entries, max_results) == entries

\* line 852: matched_agents[:max_results]
Truncate(entries, max_results) ==
    SubSeq(entries, 1, IF max_results < Len(entries) THEN max_results
                       ELSE Len(entries))

\* lines 792-852: the agents of the response
DiscoveredBySkills(agents, en, user_context, skills, tags, max_results) ==
    Truncate(
        SortByRelevance(
            MatchedAgents(_filter_agents_by_access(agents, user_context),
                          en, skills, tags)),
        max_results)

\* lines 799-849: the paths of the agents a relevance score is computed for
ScoredPaths(agents, en, user_context, skills, tags) ==
    LET matched == MatchedAgents(_filter_agents_by_access(agents, user_context),
                                 en, skills, tags)
    IN  {matched[i].path : i \in 1..Len(matched)}

\* lines 762 and 782-786 without the test of the skills list
SkillsRequestStatusNoEmptyTest(skills, max_results) ==
    IF max_results < MinResults \/ max_results > MaxResults THEN 422 ELSE 200

\* max_results outside [1, 100] is refused with 422 before the route runs
\* (line 762), an empty skills list with 400 (lines 782-786)
SkillsRequestStatus(skills, max_results) ==
    IF max_results < MinResults \/ max_results > MaxResults THEN 422
    ELSE IF skills = <<>> THEN 400 ELSE 200

\* POST /agents/discover.  A refused request returns no agents and never
\* reaches agent_service.get_all_agents (line 792); reads counts the calls of
\* get_all_agents, scored holds the agents that reached lines 814-826
discover_agents_by_skills(user_context, skills, tags, max_results) ==
    /\ resp = NoResponse
    /\ LET st == SkillsRequestStatus(skills, max_results)
       IN  resp' =
             [kind |-> "skills",
              user_context |-> user_context,
              skills |-> skills,
              tags |-> tags,
              max_results |-> max_results,
              status |-> st,
              reads |-> IF st = 200 THEN 1 ELSE 0,
              scored |-> IF st = 200
                         THEN ScoredPaths(catalog, enabled, user_context,
                                          skills, tags)
                         ELSE {},
              agents |-> IF st = 200
                         THEN DiscoveredBySkills(catalog, enabled, user_context,
                                                 skills, tags, max_results)
                         ELSE <<>>]
    /\ UNCHANGED <<catalog, enabled>>
    /\ UNCHANGED <<tokenVars, mgmtVars, bookingVars>>

(***************************************************************************)
(* discover_agents_semantic                                                *)
(***************************************************************************)
\* str.strip() on the queries of the model
Strip(s) == IF s = "   " THEN "" ELSE s

\* line 910: agent_map = {agent.path: agent for agent in all_agents}
AgentMap(agents) ==
    [p \in {agents[i].path : i \in 1..Len(agents)} |->
        agents[CHOOSE i \in 1..Len(agents) :
                   /\ agents[i].path = p
                   /\ \A j \in (i + 1)..Len(agents) : agents[j].path # p]]

\* lines 914-919 without the call of the filter
DroppedTrustingSearch(result, agents, user_context) ==
    \/ "path" \notin DOMAIN result
    \/ result["path"] \notin DOMAIN AgentMap(agents)

\* lines 914-919: the search result is dropped when its path is missing or
\* not in the catalog, or when the filter does not let the card through
Dropped(result, agents, user_context) ==
    \/ "path" \notin DOMAIN result
    \/ result["path"] \notin DOMAIN AgentMap(agents)
    \/ _filter_agents_by_access(<<AgentMap(agents)[result["path"]]>>,
                                user_context) = <<>>

\* lines 936-941: the entry appended to accessible_results; a result without
\* a relevance_score gets 0.0
SemanticEntry(result, agents) ==
    AgentInfo(AgentMap(agents)[result["path"]]) @@
    [score |-> Get(result, "relevance_score", 0)]

\* a loop that puts each surviving result in front of the earlier ones
RECURSIVE AccessibleResultsReversed(_, _, _)
AccessibleResultsReversed(results, agents, user_context) ==
    IF results = <<>> THEN <<>>
    ELSE LET rest == AccessibleResultsReversed(Tail(results), agents, user_context)
         IN  IF Dropped(Head(results), agents, user_context) THEN rest
             ELSE rest \o <<SemanticEntry(Head(results), agents)>>

\* lines 912-941: the loop over the search results
RECURSIVE AccessibleResults(_, _, _)
AccessibleResults(results, agents, user_context) ==
    IF results = <<>> THEN <<>>
    ELSE LET rest == AccessibleResults(Tail(results), agents, user_context)
         IN  IF Dropped(Head(results), agents, user_context) THEN rest
             ELSE <<SemanticEntry(Head(results), agents)>> \o rest

\* lines 870, 889-893 and 901-907 with a failure of the search taken for an
\* empty result
SemanticRequestStatusMaskingFailure(query, max_results, search) ==
    IF max_results < MinResults \/ max_results > MaxResults THEN 422
    ELSE IF query = "" \/ Strip(query) = "" THEN 400
    ELSE 200

\* max_results outside [1, 100] is refused with 422 before the route runs
\* (line 870), a blank query with 400 (lines 889-893); an exception of
\* faiss_service.search_entities is caught by lines 952-957 and answered
\* with 500
SemanticRequestStatus(query, max_results, search) ==
    IF max_results < MinResults \/ max_results > MaxResults THEN 422
    ELSE IF query = "" \/ Strip(query) = "" THEN 400
    ELSE IF search.raises THEN 500 ELSE 200

\* POST /agents/discover/semantic.  search is what
\* faiss_service.search_entities does: it raises, or returns a list of
\* results (lines 901-957); searches counts the calls of search_entities
discover_agents_semantic(user_context, query, max_results, search) ==
    /\ resp = NoResponse
    /\ LET st == SemanticRequestStatus(query, max_results, search)
       IN  resp' =
             [kind |-> "semantic",
              user_context |-> user_context,
              query |-> query,
              max_results |-> max_results,
              search |-> search,
              status |-> st,
              searches |-> IF st \in {422, 400} THEN 0 ELSE 1,
              agents |-> IF st = 200
                         THEN AccessibleResults(search.results, catalog,
                                                user_context)
                         ELSE <<>>]
    /\ UNCHANGED <<catalog, enabled>>
    /\ UNCHANGED <<tokenVars, mgmtVars, bookingVars>>

(***************************************************************************)
(* The discovery specification: a catalog and requests to the two routes   *)
(***************************************************************************)
SkBook == Skill("book_flight", "Book Flight")
SkCancel == Skill("CANCEL_BOOKING", "Cancel")
SkHotel == Skill("hotel_search", "Hotel Search")

TrustLevels == {"unverified", "community", "verified", "trusted", "gold"}

\* one card with every combination of visibility, skills, tags and trust
RichCards ==
    {AgentCard("/a", v, "bob", <<>>, sk, tg, tr) :
        v \in {"public", "private"},
        sk \in {<<>>, <<SkBook>>, <<SkBook, SkCancel>>, <<SkHotel>>},
        tg \in {<<>>, <<"Travel">>, <<"travel", "Booking">>},
        tr \in TrustLevels}

\* the cards of the three-agent catalogs
PlainCards(path) ==
    {AgentCard(path, "public", "bob", <<>>, sk, <<"Travel">>, tr) :
        sk \in {<<SkBook>>, <<SkBook, SkCancel>>},
        tr \in {"unverified", "verified"}}

DiscoverCatalogs ==
    {<<>>}
    \cup {<<a>> : a \in RichCards}
    \cup {<<a, b, c>> : a \in PlainCards("/a"), b \in PlainCards("/b"),
                        c \in PlainCards("/c")}

PathsOf(agents) == {agents[i].path : i \in 1..Len(agents)}

DiscoverUsers ==
    {[username |-> "alice", is_admin |-> TRUE],
     [username |-> "alice", accessible_agents |-> <<"all">>],
     [username |-> "alice", accessible_agents |-> <<"/b", "/c">>,
      groups |-> <<"g1">>]}

SkillRequests ==
    {<<"Book_Flight">>, <<"BOOK FLIGHT", "cancel">>,
     <<"book_flight", "Book_Flight", "weather">>}

TagRequests ==
    {<<>>, <<"TRAVEL">>, <<"travel", "food">>, <<"Travel", "booking", "food">>}

\* what the vector search may return for a query: an exception, or up to
\* MaxHits results; a result may name a path that has left the catalog, and
\* may lack its relevance_score
SearchHits ==
    {[path |-> "/a", relevance_score |-> 90],
     [path |-> "/b", relevance_score |-> 40],
     [path |-> "/c"],
     [path |-> "/gone", relevance_score |-> 70]}

RECURSIVE HitLists(_)
HitLists(n) ==
    IF n = 0 THEN {<<>>}
    ELSE LET shorter == HitLists(n - 1)
         IN  shorter \cup {Append(l, h) : l \in {x \in shorter : Len(x) = n - 1},
                                          h \in SearchHits}

SearchOutcomes ==
    {[raises |-> TRUE, results |-> <<>>]}
    \cup {[raises |-> FALSE, results |-> l] : l \in HitLists(MaxHits)}

DiscoverInit ==
    /\ now = 0
    /\ token = NoToken
    /\ token_expires_at = 0
    /\ pc = [c \in Callers |-> "idle"]
    /\ current_time = [c \in Callers |-> 0]
    /\ reqId = [c \in Callers |-> 0]
    /\ ret = [c \in Callers |-> NoToken]
    /\ exchanges = 0
    /\ calls = 0
    /\ winVals = {}
    /\ lastExch = NoExchange
    /\ catalog \in DiscoverCatalogs
    /\ enabled \in [PathsOf(catalog) -> BOOLEAN]
    /\ resp = NoResponse
    /\ index = <<>>
    /\ reqs = <<>>
    /\ regClock = 0
    /\ flights = <<>>
    /\ bookings = <<>>
    /\ conns = <<>>

DiscoverNext ==
    \/ \E u \in DiscoverUsers, sk \in SkillRequests, tg \in TagRequests,
          m \in {1, 2, 10} : discover_agents_by_skills(u, sk, tg, m)
    \/ \E u \in DiscoverUsers, m \in {0, 10, 101} :
          discover_agents_by_skills(u, <<>>, <<>>, m)
    \/ \E m \in {0, 101} :
          discover_agents_by_skills([username |-> "alice", is_admin |-> TRUE],
                                    <<"Book_Flight">>, <<>>, m)
    \/ \E u \in DiscoverUsers, s \in SearchOutcomes :
          discover_agents_semantic(u, "book a flight", 10, s)
    \/ \E q \in {"", "   "}, s \in {[raises |-> TRUE, results |-> <<>>],
                                     [raises |-> FALSE, results |-> <<>>]} :
          discover_agents_semantic([username |-> "alice", is_admin |-> TRUE],
                                   q, 10, s)
    \/ \E m \in {0, 101} :
          discover_agents_semantic([username |-> "alice", is_admin |-> TRUE],
                                   "book a flight", m,
                                   [raises |-> FALSE, results |-> <<>>])

SpecDiscover == DiscoverInit /\ [][DiscoverNext]_vars

(***************************************************************************)
(* Claims about the discovery routes                                       *)
(***************************************************************************)
\* the access rules as the specification of the filter states them
MaySee(agent, u) ==
    \/ IsAdmin(u)
    \/ /\ PathAdmitted(agent, u)
       /\ \/ agent.visibility = "public"
          \/ agent.visibility = "private" /\ agent.registered_by = u["username"]
          \/ /\ agent.visibility = "group-restricted"
             /\ \E g \in ToSet(agent.allowed_groups) : g \in GroupsOf(u)

\* the card of the catalog an entry of a response was made from
CardsAt(path) == {a \in ToSet(catalog) : a.path = path}

\* C4: for every principal and every sequence of (path, score) pairs the
\* vector search may return, each descriptor in a semantic-discovery response
\* passes the access filter for the calling principal, and so does each
\* descriptor in a skill-based discovery response.
C4_DiscoveryShowsOnlyVisible ==
    resp.kind \in {"skills", "semantic"} =>
        \A i \in 1..Len(resp.agents) :
            \E a \in CardsAt(resp.agents[i].path) : MaySee(a, resp.user_context)

\* C4 witness: the vector search returned a path of the catalog the principal
\* may not see together with one the principal may see, and the response
\* holds the second only
C4_Witness ==
    /\ resp.kind = "semantic"
    /\ resp.status = 200
    /\ Len(resp.search.results) = 2
    /\ Len(resp.agents) = 1
    /\ \E a \in CardsAt(resp.search.results[1]["path"]) :
           ~MaySee(a, resp.user_context)

\* case-insensitive equality of two strings
SameIgnoringCase(s, t) == Lower(s) = Lower(t)

\* the agent has a skill whose id or name is one of the required skills
HasRequiredSkill(agent, skills) ==
    \E k \in 1..Len(agent.skills), r \in 1..Len(skills) :
        \/ SameIgnoringCase(agent.skills[k].id, skills[r])
        \/ SameIgnoringCase(agent.skills[k].name, skills[r])

\* C10: in skill-based discovery, a descriptor none of whose skill ids or
\* names equals (case-insensitively) a required skill never appears in the
\* result, whatever its tag overlap and trust_level; and every result has at
\* least one matched skill.
C10_NoSkillMatchNoResult ==
    resp.kind = "skills" =>
        \A i \in 1..Len(resp.agents) :
            /\ resp.agents[i].matched_skills # {}
            /\ \E a \in CardsAt(resp.agents[i].path) :
                   HasRequiredSkill(a, resp.skills)

\* C10 witness: an enabled, visible, trusted agent whose tags match the
\* request but whose skills do not has been left out of the result
C10_Witness ==
    /\ resp.kind = "skills"
    /\ resp.status = 200
    /\ resp.agents = <<>>
    /\ \E a \in ToSet(catalog) :
           /\ enabled[a.path]
           /\ MaySee(a, resp.user_context)
           /\ a.trust_level = "trusted"
           /\ LowerSet(a.tags) \cap LowerSet(resp.tags) # {}
           /\ a.skills # <<>>
           /\ ~HasRequiredSkill(a, resp.skills)

\* the card an entry of a skill-based response was made from (paths are
\* unique in the catalog)
CardOf(entry) == CHOOSE a \in ToSet(catalog) : a.path = entry.path

\* the required skills, the optional tags and their matches as the
\* specification of the matcher states them: sets compared case-insensitively
RequiredKeys(skills) == {Lower(skills[r]) : r \in 1..Len(skills)}
MatchedKeys(agent, skills) ==
    {k \in RequiredKeys(skills) :
        \E j \in 1..Len(agent.skills) :
            \/ k = Lower(agent.skills[j].id)
            \/ k = Lower(agent.skills[j].name)}
OptionalTagKeys(tags) == {Lower(tags[r]) : r \in 1..Len(tags)}
MatchedTagKeys(agent, tags) ==
    {k \in OptionalTagKeys(tags) :
        \E j \in 1..Len(agent.tags) : k = Lower(agent.tags[j])}
KnownTrustBoost ==
    [unverified |-> 0, community |-> 20, verified |-> 50, trusted |-> 100]

\* 0.6 * |skill_matches| / |required_skills| + 0.2 * tag_match_score
\* + 0.2 * trust_boost as the fraction RelevanceNum / RelevanceDen of one
\* hundredth (tag_match_score is 0 when no tags are given)
RelevanceDen(skills, tags) ==
    Cardinality(RequiredKeys(skills))
    * (IF tags = <<>> THEN 1 ELSE Cardinality(OptionalTagKeys(tags)))
RelevanceNum(agent, skills, tags) ==
    LET nReq == Cardinality(RequiredKeys(skills))
        nTag == IF tags = <<>> THEN 1 ELSE Cardinality(OptionalTagKeys(tags))
    IN  60 * Cardinality(MatchedKeys(agent, skills)) * nTag
        + (IF tags = <<>> THEN 0
           ELSE 20 * Cardinality(MatchedTagKeys(agent, tags)) * nReq)
        + (20 * KnownTrustBoost[agent.trust_level] * nReq * nTag) \div 100

\* s hundredths is a nearest hundredth of num / den hundredths
NearestHundredth(s, num, den) ==
    /\ 2 * (s * den - num) <= den
    /\ 2 * (num - s * den) <= den

\* C11: for every returned descriptor, relevance = round(0.6 *
\* |skill_matches| / |required_skills| + 0.2 * tag_match_score + 0.2 *
\* trust_boost, 2) with tag_match_score = |tag_matches| / |optional_tags| (0
\* without tags) and trust_boost 0.0/0.2/0.5/1.0 for unverified/community/
\* verified/trusted; one required skill, matched, no tags and trust_level
\* verified give 0.70; every relevance lies in [0, 1].
C11_RelevanceFormula ==
    (resp.kind = "skills" /\ resp.status = 200) =>
        \A i \in 1..Len(resp.agents) :
            LET e == resp.agents[i]
                a == CardOf(e)
            IN  /\ e.relevance_score \in 0..100
                /\ a.trust_level \in DOMAIN KnownTrustBoost =>
                      /\ NearestHundredth(e.relevance_score,
                                          RelevanceNum(a, resp.skills, resp.tags),
                                          RelevanceDen(resp.skills, resp.tags))
                      /\ (/\ Cardinality(RequiredKeys(resp.skills)) = 1
                          /\ resp.tags = <<>>
                          /\ a.trust_level = "verified") =>
                             e.relevance_score = 70

\* C11 witness: a returned descriptor whose unrounded relevance is not a
\* whole number of hundredths (a third of the optional tags matched), so
\* that the rounding decided the score
C11_Witness ==
    /\ resp.kind = "skills"
    /\ resp.status = 200
    /\ \E i \in 1..Len(resp.agents) :
           LET a == CardOf(resp.agents[i])
           IN  /\ a.trust_level = "verified"
               /\ Cardinality(OptionalTagKeys(resp.tags)) = 3
               /\ Cardinality(MatchedTagKeys(a, resp.tags)) = 1
               /\ RelevanceNum(a, resp.skills, resp.tags)
                      % RelevanceDen(resp.skills, resp.tags) # 0
               /\ resp.agents[i].relevance_score = 77

\* the worked example of C11: skills book_flight and cancel_booking, the
\* one required skill book_flight, no tags, trust_level verified
C11_WitnessExample ==
    /\ resp.kind = "skills"
    /\ resp.status = 200
    /\ resp.tags = <<>>
    /\ Cardinality(RequiredKeys(resp.skills)) = 1
    /\ \E i \in 1..Len(resp.agents) :
           /\ CardOf(resp.agents[i]).skills = <<SkBook, SkCancel>>
           /\ CardOf(resp.agents[i]).trust_level = "verified"
           /\ resp.agents[i].relevance_score = 70

\* the position of a path in the catalog
CatalogIndex(path) == CHOOSE i \in 1..Len(catalog) : catalog[i].path = path

\* C12: the skill-based discovery result is ordered by relevance descending,
\* and any two results with equal (rounded) relevance appear in the same
\* relative order as in the input catalog.
C12_RankedStable ==
    (resp.kind = "skills" /\ resp.status = 200) =>
        \A i \in 1..Len(resp.agents), j \in 1..Len(resp.agents) :
            i < j =>
                \/ resp.agents[i].relevance_score > resp.agents[j].relevance_score
                \/ /\ resp.agents[i].relevance_score = resp.agents[j].relevance_score
                   /\ CatalogIndex(resp.agents[i].path)
                          < CatalogIndex(resp.agents[j].path)

\* C12 witness: three results; the first agent of the catalog scored lowest
\* and comes last, the other two tie and keep their catalog order
C12_Witness ==
    /\ resp.kind = "skills"
    /\ resp.status = 200
    /\ Len(resp.agents) = 3
    /\ resp.agents[1].relevance_score = resp.agents[2].relevance_score
    /\ resp.agents[2].relevance_score > resp.agents[3].relevance_score
    /\ resp.agents[3].path = catalog[1].path
    /\ resp.agents[1].path = catalog[2].path

\* the enabled, visible, skill-matching descriptors of the catalog for the
\* request of the response
Qualifying ==
    {a \in ToSet(catalog) :
        /\ enabled[a.path]
        /\ MaySee(a, resp.user_context)
        /\ HasRequiredSkill(a, resp.skills)}

ReturnedPaths == {resp.agents[i].path : i \in 1..Len(resp.agents)}

\* C13: skill-based discovery returns exactly min(max_results, M) entries,
\* where M is the number of enabled, visible, skill-matching descriptors, and
\* those entries are the first max_results of the full ranking: no
\* lower-ranked descriptor is returned while a higher-ranked one is left out.
C13_TopOfRanking ==
    (resp.kind = "skills" /\ resp.status = 200) =>
        /\ Len(resp.agents) =
               IF resp.max_results < Cardinality(Qualifying)
               THEN resp.max_results ELSE Cardinality(Qualifying)
        /\ Cardinality(ReturnedPaths) = Len(resp.agents)
        /\ ReturnedPaths \subseteq {a.path : a \in Qualifying}
        /\ \A a \in Qualifying :
               a.path \notin ReturnedPaths =>
                   \A i \in 1..Len(resp.agents) :
                       LET mine == RelevanceScore(a, resp.skills, resp.tags)
                           theirs == resp.agents[i].relevance_score
                       IN  \/ theirs > mine
                           \/ /\ theirs = mine
                              /\ CatalogIndex(resp.agents[i].path)
                                     < CatalogIndex(a.path)

\* C13 witness: three descriptors qualify, max_results is 2, two are
\* returned and the one left out is not the last of the catalog
C13_Witness ==
    /\ resp.kind = "skills"
    /\ resp.status = 200
    /\ resp.max_results = 2
    /\ Cardinality(Qualifying) = 3
    /\ Len(resp.agents) = 2
    /\ catalog[3].path \in ReturnedPaths

\* C14: a descriptor that is disabled in the catalog at the time of a
\* skill-based discovery call never appears in its result, whatever its
\* skill, tag and trust score; it is excluded before any score is computed.
C14_DisabledNeverDiscovered ==
    resp.kind = "skills" =>
        \A a \in ToSet(catalog) :
            ~enabled[a.path] =>
                /\ a.path \notin ReturnedPaths
                /\ a.path \notin resp.scored

\* C14 witness: a disabled descriptor that is visible to the principal,
\* matches a required skill and a requested tag and is trusted has been
\* left out of an accepted request
C14_Witness ==
    /\ resp.kind = "skills"
    /\ resp.status = 200
    /\ \E a \in ToSet(catalog) :
           /\ ~enabled[a.path]
           /\ MaySee(a, resp.user_context)
           /\ HasRequiredSkill(a, resp.skills)
           /\ MatchedTagKeys(a, resp.tags) # {}
           /\ a.trust_level = "trusted"
           /\ a.path \notin ReturnedPaths

\* C15: skill-based discovery called with an empty required_skills list
\* fails with a validation (client) error for every catalog and principal,
\* returns no results and does not read the catalog.
C15_EmptySkillsRejected ==
    (resp.kind = "skills" /\ resp.skills = <<>>) =>
        /\ resp.status \in {400, 422}
        /\ resp.agents = <<>>
        /\ resp.reads = 0

\* C15 witness: an empty skills list with max_results in range has been
\* refused with 400 although the catalog holds an enabled descriptor the
\* principal may see
C15_Witness ==
    /\ resp.kind = "skills"
    /\ resp.skills = <<>>
    /\ resp.max_results = 10
    /\ resp.status = 400
    /\ \E a \in ToSet(catalog) : enabled[a.path] /\ MaySee(a, resp.user_context)

\* the request of a semantic response passed the validation of the route, so
\* that the vector search was called
SearchCalled ==
    /\ resp.kind = "semantic"
    /\ resp.max_results \in MinResults..MaxResults
    /\ resp.query \notin {"", "   "}

\* C19: if the vector-search collaborator call fails for any reason,
\* semantic discovery fails with a search-unavailable (server-side) error: it
\* returns no partial result list, makes no second collaborator call and
\* does not fall back to skill-based matching.
C19_SearchFailureSurfaced ==
    (SearchCalled /\ resp.search.raises) =>
        /\ resp.status = 500
        /\ resp.agents = <<>>
        /\ resp.searches = 1

\* C19 witness: the search raised while the catalog held an enabled
\* descriptor the principal may see, and the response is the 500 error
C19_Witness ==
    /\ SearchCalled
    /\ resp.search.raises
    /\ resp.status = 500
    /\ \E a \in ToSet(catalog) :
           /\ enabled[a.path]
           /\ MaySee(a, resp.user_context)
           /\ a.skills # <<>>

\* f picks, in increasing order, the search results the entries of the
\* response were made from
PicksInOrder(f) ==
    /\ \A i \in DOMAIN f, j \in DOMAIN f : i < j => f[i] < f[j]
    /\ \A i \in DOMAIN f :
           LET hit == resp.search.results[f[i]]
           IN  /\ resp.agents[i].path = hit["path"]
               /\ "relevance_score" \in DOMAIN hit =>
                      resp.agents[i].score = hit["relevance_score"]

\* C20: the semantic-discovery result is an order-preserving subsequence of
\* the collaborator's returned sequence: a path that is no longer present in
\* the live catalog is dropped, every surviving entry keeps the
\* collaborator's score, and surviving entries keep the collaborator's
\* relative order.
C20_OrderPreservingSubsequence ==
    (resp.kind = "semantic" /\ resp.status = 200) =>
        /\ \A i \in 1..Len(resp.agents) : resp.agents[i].path \in PathsOf(catalog)
        /\ \E f \in [1..Len(resp.agents) -> 1..Len(resp.search.results)] :
               /\ PicksInOrder(f)
               /\ \A k \in 1..Len(resp.search.results) :
                      (\A i \in DOMAIN f : f[i] # k) =>
                          \/ resp.search.results[k]["path"] \notin PathsOf(catalog)
                          \/ \A a \in CardsAt(resp.search.results[k]["path"]) :
                                 ~MaySee(a, resp.user_context)

\* C20 witness: the search ranked /b before /a with the lower score, both
\* survive, and the response keeps that order and both scores
C20_Witness ==
    /\ resp.kind = "semantic"
    /\ resp.status = 200
    /\ Len(resp.search.results) >= 2
    /\ Len(resp.agents) = 2
    /\ resp.agents[1].path = "/b" /\ resp.agents[1].score = 40
    /\ resp.agents[2].path = "/a" /\ resp.agents[2].score = 90

\* a path that has left the catalog is dropped and the result behind it
\* survives
C20_WitnessStale ==
    /\ resp.kind = "semantic"
    /\ resp.status = 200
    /\ Len(resp.search.results) = 2
    /\ resp.search.results[1]["path"] = "/gone"
    /\ Len(resp.agents) = 1
    /\ resp.agents[1].path = resp.search.results[2]["path"]

(***************************************************************************)
(* check_agent_health                                                      *)
(***************************************************************************)
\* _normalize_path on the request paths of the model: a leading slash is
\* added, trailing slashes are stripped
_normalize_path(path) ==
    CASE path = "a" -> "/a"
      [] path = "/a/" -> "/a"
      [] path = "b/" -> "/b"
      [] OTHER -> path

\* Python's None in status_code and response_time_ms
None == -1

\* the initial values of lines 473-476
InitialResult ==
    [status |-> "unknown", status_code |-> None, detail |-> [text |-> "None"],
     response_time_ms |-> None]

\* what the GET of line 481 may do: return a response, or raise an
\* exception, given by the classes it is an instance of
\* (httpx.TimeoutException is an httpx.HTTPError)
PingStatusCodes == {200, 204, 301, 404, 500, 503}
PingOutcomes ==
    {[kind |-> "response", status_code |-> c, elapsed_ms |-> ms] :
        c \in PingStatusCodes, ms \in {0, 12}}
    \cup {[kind |-> "raises", exc |-> "ConnectTimeout",
           classes |-> {"TimeoutException", "HTTPError", "Exception"}],
          [kind |-> "raises", exc |-> "ReadTimeout",
           classes |-> {"TimeoutException", "HTTPError", "Exception"}],
          [kind |-> "raises", exc |-> "All connection attempts failed",
           classes |-> {"HTTPError", "Exception"}],
          [kind |-> "raises", exc |-> "Invalid URL",
           classes |-> {"Exception"}]}

\* lines 479-497 without the last except clause
ExceptClauseWithoutCatchAll(outcome) ==
    IF outcome.kind = "response" THEN "none"
    ELSE IF "TimeoutException" \in outcome.classes THEN "TimeoutException"
    ELSE IF "HTTPError" \in outcome.classes THEN "HTTPError"
    ELSE "uncaught"

\* lines 479-497: the except clause that handles the outcome, the first one
\* in the order of the source whose class the exception is an instance of
ExceptClause(outcome) ==
    IF outcome.kind = "response" THEN "none"
    ELSE IF "TimeoutException" \in outcome.classes THEN "TimeoutException"
    ELSE IF "HTTPError" \in outcome.classes THEN "HTTPError"
    ELSE IF "Exception" \in outcome.classes THEN "Exception"
    ELSE "uncaught"

\* lines 484-488 taking every status below 300 for healthy
StatusLabelOfAny2xx(status_code) ==
    IF status_code < 300 THEN "healthy" ELSE "unhealthy"

\* lines 484-488
StatusLabelOf(status_code) ==
    IF status_code = 200 THEN "healthy" ELSE "unhealthy"

\* lines 473-497: the four fields of the result for a handled outcome
ProbeResult(outcome) ==
    CASE ExceptClause(outcome) = "none" ->
           [status |-> StatusLabelOf(outcome.status_code),
            status_code |-> outcome.status_code,
            detail |-> IF outcome.status_code = 200 THEN [text |-> "None"]
                       ELSE [text |-> "Agent responded with HTTP",
                             code |-> outcome.status_code],
            response_time_ms |-> outcome.elapsed_ms]
      [] ExceptClause(outcome) = "TimeoutException" ->
           [InitialResult EXCEPT !.status = "unhealthy",
                                 !.detail = [text |-> "Health check timed out"]]
      [] ExceptClause(outcome) = "HTTPError" ->
           [InitialResult EXCEPT !.status = "unhealthy",
                                 !.detail = [text |-> "Health check failed",
                                             exc |-> outcome.exc]]
      [] ExceptClause(outcome) = "Exception" ->
           [InitialResult EXCEPT !.status = "unhealthy",
                                 !.detail = [text |-> "Unexpected health check error",
                                             exc |-> outcome.exc]]
      [] OTHER -> InitialResult

\* lines 447-467 without the test of the enabled state
HealthRequestStatusIgnoringEnabled(path, agents, en, user_context) ==
    IF path \notin DOMAIN AgentMap(agents) THEN 404
    ELSE IF _filter_agents_by_access(<<AgentMap(agents)[path]>>,
                                     user_context) = <<>> THEN 403
    ELSE 200

\* lines 447-467: 404 for an unknown path, 403 when the filter refuses the
\* card, 400 for a disabled agent
HealthRequestStatus(path, agents, en, user_context) ==
    IF path \notin DOMAIN AgentMap(agents) THEN 404
    ELSE IF _filter_agents_by_access(<<AgentMap(agents)[path]>>,
                                     user_context) = <<>> THEN 403
    ELSE IF ~en[path] THEN 400
    ELSE 200

\* POST /agents/{path}/health.  requests counts the GETs sent to the agent's
\* /ping (line 481); outcome is what that GET did.  An exception no except
\* clause handles leaves the route, which FastAPI answers with 500
check_agent_health(path, user_context, outcome) ==
    /\ resp = NoResponse
    /\ LET p == _normalize_path(path)
           st == HealthRequestStatus(p, catalog, enabled, user_context)
           handled == ExceptClause(outcome) # "uncaught"
       IN  resp' =
             [kind |-> "health",
              path |-> p,
              user_context |-> user_context,
              requests |-> IF st = 200 THEN 1 ELSE 0,
              outcome |-> IF st = 200 THEN outcome ELSE [kind |-> "not sent"],
              status |-> IF st = 200 /\ ~handled THEN 500 ELSE st,
              result |-> IF st = 200 /\ handled THEN ProbeResult(outcome)
                         ELSE InitialResult]
    /\ UNCHANGED <<catalog, enabled>>
    /\ UNCHANGED <<tokenVars, mgmtVars, bookingVars>>

(***************************************************************************)
(* The health specification: a catalog and one health check                *)
(***************************************************************************)
HealthCards(path) ==
    {AgentCard(path, v, "bob", <<>>, <<>>, <<>>, "unverified") :
        v \in {"public", "private"}}

HealthCatalogs ==
    {<<>>}
    \cup {<<a>> : a \in HealthCards("/a")}
    \cup {<<a, b>> : a \in HealthCards("/a"), b \in HealthCards("/b")}

HealthUsers ==
    {[username |-> "alice", is_admin |-> TRUE],
     [username |-> "alice", accessible_agents |-> <<"all">>],
     [username |-> "bob", accessible_agents |-> <<"/a">>]}

HealthPaths == {"a", "/a/", "/b", "b/", "/missing"}

HealthInit ==
    /\ now = 0
    /\ token = NoToken
    /\ token_expires_at = 0
    /\ pc = [c \in Callers |-> "idle"]
    /\ current_time = [c \in Callers |-> 0]
    /\ reqId = [c \in Callers |-> 0]
    /\ ret = [c \in Callers |-> NoToken]
    /\ exchanges = 0
    /\ calls = 0
    /\ winVals = {}
    /\ lastExch = NoExchange
    /\ catalog \in HealthCatalogs
    /\ enabled \in [PathsOf(catalog) -> BOOLEAN]
    /\ resp = NoResponse
    /\ index = <<>>
    /\ reqs = <<>>
    /\ regClock = 0
    /\ flights = <<>>
    /\ bookings = <<>>
    /\ conns = <<>>

HealthNext ==
    \E path \in HealthPaths, u \in HealthUsers, outcome \in PingOutcomes :
        check_agent_health(path, u, outcome)

SpecHealth == HealthInit /\ [][HealthNext]_vars

(***************************************************************************)
(* Claims about the health check                                           *)
(***************************************************************************)
\* the descriptor of the health check was found, is accessible to the
\* principal and is enabled
ProbePreconditions ==
    /\ resp.kind = "health"
    /\ \E a \in CardsAt(resp.path) : MaySee(a, resp.user_context)
    /\ enabled[resp.path]

\* C16: once the probe's preconditions hold (descriptor found, accessible,
\* enabled), the health probe never raises: a timeout, a transport error and
\* any other exception of the outbound request each resolve into a returned
\* result, and the status of every returned result is healthy or unhealthy
\* (never the initial value unknown).
C16_ProbeNeverRaises ==
    ProbePreconditions =>
        /\ resp.status = 200
        /\ resp.result.status \in {"healthy", "unhealthy"}

\* C16 witness: the outbound request raised an exception that is neither a
\* timeout nor an httpx error, and the route returned an unhealthy result
C16_Witness ==
    /\ ProbePreconditions
    /\ resp.outcome.kind = "raises"
    /\ resp.outcome.classes = {"Exception"}
    /\ resp.status = 200
    /\ resp.result.status = "unhealthy"

\* C17: the probe's status is healthy if and only if an HTTP response with
\* status 200 was received; any other HTTP status gives unhealthy with the
\* status code recorded in detail and status_code; a timeout gives unhealthy
\* with a detail saying it timed out; a transport error gives unhealthy with
\* the underlying error message; status_code and response_time_ms are set
\* only when a response was received.
C17_ProbeClassification ==
    (resp.kind = "health" /\ resp.requests = 1 /\ resp.status = 200) =>
        LET o == resp.outcome
            r == resp.result
            received == o.kind = "response"
        IN  /\ r.status = "healthy" <=> (received /\ o.status_code = 200)
            /\ (received /\ o.status_code # 200) =>
                   /\ r.status = "unhealthy"
                   /\ r.status_code = o.status_code
                   /\ "code" \in DOMAIN r.detail
                   /\ r.detail["code"] = o.status_code
            /\ (~received /\ "TimeoutException" \in o.classes) =>
                   /\ r.status = "unhealthy"
                   /\ r.detail = [text |-> "Health check timed out"]
            /\ (/\ ~received
                /\ "HTTPError" \in o.classes
                /\ "TimeoutException" \notin o.classes) =>
                   /\ r.status = "unhealthy"
                   /\ "exc" \in DOMAIN r.detail
                   /\ r.detail["exc"] = o.exc
            /\ r.status_code # None => received
            /\ r.response_time_ms # None => received

\* C17 witness: the agent answered 204 within 0 ms; the result is unhealthy,
\* records the 204 and a response time of 0
C17_Witness ==
    /\ resp.kind = "health"
    /\ resp.status = 200
    /\ resp.outcome.kind = "response"
    /\ resp.outcome.status_code = 204
    /\ resp.result.status = "unhealthy"
    /\ resp.result.status_code = 204
    /\ resp.result.response_time_ms = 0

\* a timeout of the outbound request has been classified as timed out
C17_WitnessTimeout ==
    /\ resp.kind = "health"
    /\ resp.status = 200
    /\ resp.outcome.kind = "raises"
    /\ resp.outcome.exc = "ConnectTimeout"
    /\ resp.result.detail = [text |-> "Health check timed out"]
    /\ resp.result.status_code = None

\* C18: a health check requested for a descriptor that is disabled is
\* rejected with an error before any outbound request is made; in every
\* invocation the probe issues at most one outbound request, and exactly one
\* when the descriptor exists, is accessible and is enabled (no retries).
C18_OneRequestUnlessRejected ==
    resp.kind = "health" =>
        /\ resp.requests <= 1
        /\ ProbePreconditions => resp.requests = 1
        /\ (resp.path \in PathsOf(catalog) /\ ~enabled[resp.path]) =>
               /\ resp.status \in {400, 403}
               /\ resp.requests = 0
               /\ resp.result = InitialResult

\* C18 witness: a disabled descriptor the principal may see has been refused
\* with 400 and no request was sent
C18_Witness ==
    /\ resp.kind = "health"
    /\ resp.path \in PathsOf(catalog)
    /\ ~enabled[resp.path]
    /\ \E a \in CardsAt(resp.path) : MaySee(a, resp.user_context)
    /\ resp.status = 400
    /\ resp.requests = 0

(***************************************************************************)
(* Further claims about the credential cache                               *)
(***************************************************************************)
\* C21: when an exchange is needed and the identity provider replies with a
\* non-success status or the transport fails, _get_token fails with an
\* error: it returns no token (never the stale cached one), and the cached
\* token and its expiry are left exactly as they were before the call.
C21_FailedExchangeKeepsCache ==
    [][\A c \in Callers :
          (pc[c] = "posting" /\ pc'[c] = "failed") =>
              /\ ret'[c] = NoToken
              /\ token' = token
              /\ token_expires_at' = token_expires_at]_vars

\* C21 witness: a call has failed while a token that is no longer reusable
\* is cached; the call holds no token and the stale token is still cached
C21_Witness ==
    \E c \in Callers :
        /\ pc[c] = "failed"
        /\ ret[c] = NoToken
        /\ token # NoToken
        /\ ~Reusable(token, token_expires_at, current_time[c])
        /\ \A d \in Callers : d # c => pc[d] = "idle"

PicksFromInput(f) ==
    /\ \A i \in DOMAIN f, j \in DOMAIN f : i < j => f[i] < f[j]
    /\ \A i \in DOMAIN f : resp.accessible[i] = resp.agents[f[i]]

\* C23: filter's result is a subsequence of its input: the visible
\* descriptors appear in the same relative order as in the input catalog,
\* none is duplicated or added, and the input descriptors and the principal
\* are left unmodified.
C23_FilterKeepsOrder ==
    Filtered =>
        /\ \E f \in [1..Len(resp.accessible) -> 1..Len(resp.agents)] :
               PicksFromInput(f)
        /\ catalog = resp.agents

\* C23 witness: of the list /c, /a, /b the principal sees the first and the
\* last, and the result holds them in that order
C23_Witness ==
    /\ Filtered
    /\ Len(resp.agents) = 3
    /\ ~IsAdmin(resp.user_context)
    /\ Len(resp.accessible) = 2
    /\ resp.accessible[1] = resp.agents[1]
    /\ resp.accessible[2] = resp.agents[3]

(***************************************************************************)
(* get_agent and list_agents                                               *)
(***************************************************************************)
\* lines 414-433: 404 for an unknown path, 403 when the filter refuses the
\* card
FetchStatus(path, agents, user_context) ==
    IF path \notin DOMAIN AgentMap(agents) THEN 404
    ELSE IF _filter_agents_by_access(<<AgentMap(agents)[path]>>,
                                     user_context) = <<>> THEN 403
    ELSE 200

\* line 435: the card is the body of a 200 answer
FetchBody(path, agents, user_context) ==
    IF FetchStatus(path, agents, user_context) = 200
    THEN <<AgentMap(agents)[path]>> ELSE <<>>

\* GET /agents/{path}
get_agent(path, user_context) ==
    /\ resp = NoResponse
    /\ LET p == _normalize_path(path)
       IN  resp' = [kind |-> "fetch",
                    path |-> p,
                    user_context |-> user_context,
                    status |-> FetchStatus(p, catalog, user_context),
                    body |-> FetchBody(p, catalog, user_context)]
    /\ UNCHANGED <<catalog, enabled>>
    /\ UNCHANGED <<tokenVars, mgmtVars, bookingVars>>

\* lines 343-377: the loop over accessible_agents without a search query;
\* visibility "" stands for no visibility filter
RECURSIVE ListedAgents(_, _, _, _)
ListedAgents(agents, en, enabled_only, visibility) ==
    IF agents = <<>> THEN <<>>
    ELSE LET agent == Head(agents)
             rest == ListedAgents(Tail(agents), en, enabled_only, visibility)
         IN  IF \/ enabled_only /\ ~en[agent.path]
                \/ visibility # "" /\ agent.visibility # visibility
             THEN rest
             ELSE <<[AgentInfo(agent) EXCEPT !.is_enabled = en[agent.path]]>>
                  \o rest

\* GET /agents
list_agents(enabled_only, visibility, user_context) ==
    /\ resp = NoResponse
    /\ LET listed == ListedAgents(_filter_agents_by_access(catalog, user_context),
                                  enabled, enabled_only, visibility)
       IN  resp' = [kind |-> "list",
                    user_context |-> user_context,
                    enabled_only |-> enabled_only,
                    visibility |-> visibility,
                    status |-> 200,
                    agents |-> listed,
                    total_count |-> Len(listed)]
    /\ UNCHANGED <<catalog, enabled>>
    /\ UNCHANGED <<tokenVars, mgmtVars, bookingVars>>

\* the read routes a principal may call on one catalog
AccessNext ==
    \/ \E path \in HealthPaths, u \in HealthUsers : get_agent(path, u)
    \/ \E eo \in BOOLEAN, v \in {"", "public", "private"}, u \in HealthUsers :
          list_agents(eo, v, u)
    \/ \E path \in HealthPaths, u \in HealthUsers, outcome \in PingOutcomes :
          check_agent_health(path, u, outcome)

SpecAccess == HealthInit /\ [][AccessNext]_vars

(***************************************************************************)
(* Claims about what the read routes reveal                                *)
(***************************************************************************)
\* the catalog without the descriptors the principal may not see, and the
\* enabled states of what is left
VisiblePart(agents, u) == SelectSeq(agents, LAMBDA a : MaySee(a, u))

\* C22: a principal who lacks entitlement to a descriptor gets a generic
\* denial that does not leak the descriptor's existence or details: for two
\* catalogs that differ only in descriptors this principal may not see,
\* every response the principal receives from fetching or health-checking a
\* path, listing, and discovery is identical.  Stated for the catalog and
\* the catalog without the descriptors the principal may not see.
\* (SpecAccess: violated, an inaccessible path is answered with 403 and a
\* missing one with 404.)
C22_NoExistenceLeak ==
    LET u == resp.user_context
        twin == VisiblePart(catalog, u)
    IN  /\ resp.kind = "fetch" =>
               /\ resp.status = FetchStatus(resp.path, twin, u)
               /\ resp.body = FetchBody(resp.path, twin, u)
        /\ (resp.kind = "health" /\ resp.requests = 0) =>
               resp.status = HealthRequestStatus(resp.path, twin, enabled, u)
        /\ resp.kind = "list" =>
               resp.agents = ListedAgents(_filter_agents_by_access(twin, u),
                                          enabled, resp.enabled_only,
                                          resp.visibility)

\* the part of C22 that holds: listing never shows, counts or depends on a
\* descriptor the principal may not see
C22_ListingDoesNotLeak ==
    resp.kind = "list" =>
        LET u == resp.user_context
            twin == VisiblePart(catalog, u)
        IN  /\ resp.agents = ListedAgents(_filter_agents_by_access(twin, u),
                                          enabled, resp.enabled_only,
                                          resp.visibility)
            /\ resp.total_count = Len(resp.agents)

(***************************************************************************)
(* BookingDatabaseManager (flight booking agent)                           *)
(***************************************************************************)
\* the flights of the database, and an id no flight has
FlightIds == {1}
NoFlight == 9

\* the rows the model starts from: every flight has InitialSeats seats left
\* and insert_seed_data has stored one pending booking with one passenger
\* (seed bookings are inserted without a change of available_seats)
SeedBookings ==
    <<[flight_id |-> 1, status |-> "pending", passengers |-> 1,
       seeded |-> TRUE, released |-> 0]>>

\* a connection that runs no call; result is the outcome of its last call
Idle(result) == [op |-> "idle", flight_id |-> 0, num_passengers |-> 0, available_seats |-> 0, result |-> result]

\* lines 213-225: the SELECT of create_reservation and its two tests; "ok"
\* lets the call go on to its INSERTs
ReservationCheck(flight_id, num_passengers) ==
    IF flight_id \notin DOMAIN flights THEN "Flight not found"
    ELSE IF flights[flight_id] < num_passengers THEN "Not enough seats"
    ELSE "ok"

\* lines 209-225: create_reservation opens its own connection, reads price
\* and available_seats and raises ValueError when the flight is missing or
\* has fewer seats than passengers.  The SELECT runs outside a transaction:
\* other connections may commit before this call writes
BeginReservation(c, flight_id, num_passengers) ==
    /\ conns[c].op = "idle"
    /\ Len(bookings) < MaxBookings
    /\ LET check == ReservationCheck(flight_id, num_passengers)
       IN  conns' = [conns EXCEPT ![c] =
                       IF check = "ok"
                       THEN [op |-> "create_reservation",
                             flight_id |-> flight_id,
                             num_passengers |-> num_passengers,
                             available_seats |-> flights[flight_id],
                             result |-> "none"]
                       ELSE Idle(check)]
    /\ UNCHANGED <<flights, bookings>>
    /\ UNCHANGED <<tokenVars, registryVars, mgmtVars>>

\* lines 227-258: the write transaction of create_reservation: the booking
\* and its passengers are inserted and available_seats is lowered by
\* UPDATE ... SET available_seats = available_seats - ?, on the value the
\* database holds now; the commit makes all of it visible at once
CommitReservation(c) ==
    /\ conns[c].op = "create_reservation"
    /\ bookings' = Append(bookings,
                          [flight_id |-> conns[c].flight_id,
                           status |-> "pending",
                           passengers |-> conns[c].num_passengers,
                           seeded |-> FALSE,
                           released |-> 0])
    /\ flights' = [flights EXCEPT ![conns[c].flight_id] =
                      @ - conns[c].num_passengers]
    /\ conns' = [conns EXCEPT ![c] = Idle("reserved")]
    /\ UNCHANGED <<tokenVars, registryVars, mgmtVars>>

\* lines 273-315: only a pending booking is confirmed
confirm_booking(c, b) ==
    /\ conns[c].op = "idle"
    /\ IF b \in DOMAIN bookings /\ bookings[b].status = "pending"
       THEN /\ bookings' = [bookings EXCEPT ![b].status = "confirmed"]
            /\ conns' = [conns EXCEPT ![c] = Idle("confirmed")]
       ELSE /\ bookings' = bookings
            /\ conns' = [conns EXCEPT ![c] = Idle("error")]
    /\ UNCHANGED flights
    /\ UNCHANGED <<tokenVars, registryVars, mgmtVars>>

\* lines 317-365: the booking is set to paid whatever its status is
process_payment(c, b) ==
    /\ conns[c].op = "idle"
    /\ IF b \in DOMAIN bookings
       THEN /\ bookings' = [bookings EXCEPT ![b].status = "paid"]
            /\ conns' = [conns EXCEPT ![c] = Idle("paid")]
       ELSE /\ bookings' = bookings
            /\ conns' = [conns EXCEPT ![c] = Idle("error")]
    /\ UNCHANGED flights
    /\ UNCHANGED <<tokenVars, registryVars, mgmtVars>>

\* lines 415-473: a booking that is not cancelled is set to cancelled and
\* the number of its passengers is added to available_seats; released
\* counts how often the seats of the booking were given back
cancel_booking(c, b) ==
    /\ conns[c].op = "idle"
    /\ b \in DOMAIN bookings => bookings[b].released < MaxReleases
    /\ IF b \in DOMAIN bookings /\ bookings[b].status # "cancelled"
       THEN /\ bookings' = [bookings EXCEPT ![b].status = "cancelled",
                                            ![b].released = @ + 1]
            /\ flights' = [flights EXCEPT ![bookings[b].flight_id] =
                              @ + bookings[b].passengers]
            /\ conns' = [conns EXCEPT ![c] = Idle("cancelled")]
       ELSE /\ UNCHANGED <<bookings, flights>>
            /\ conns' = [conns EXCEPT ![c] = Idle("error")]
    /\ UNCHANGED <<tokenVars, registryVars, mgmtVars>>

Conns == 1..NumConns

PassengerCounts == 1..MaxPassengers

BookingInit ==
    /\ now = 0
    /\ token = NoToken
    /\ token_expires_at = 0
    /\ pc = [c \in Callers |-> "idle"]
    /\ current_time = [c \in Callers |-> 0]
    /\ reqId = [c \in Callers |-> 0]
    /\ ret = [c \in Callers |-> NoToken]
    /\ exchanges = 0
    /\ calls = 0
    /\ winVals = {}
    /\ lastExch = NoExchange
    /\ catalog = <<>>
    /\ enabled = <<>>
    /\ resp = NoResponse
    /\ index = <<>>
    /\ reqs = <<>>
    /\ regClock = 0
    /\ flights = [f \in FlightIds |-> InitialSeats]
    /\ bookings = SeedBookings
    /\ conns = [c \in Conns |-> Idle("none")]

BookingNext ==
    \/ \E c \in Conns, f \in FlightIds \cup {NoFlight}, n \in PassengerCounts : BeginReservation(c, f, n)
    \/ \E c \in Conns : CommitReservation(c)
    \/ \E c \in Conns, b \in 1..MaxBookings : confirm_booking(c, b)
    \/ \E c \in Conns, b \in 1..MaxBookings : process_payment(c, b)
    \/ \E c \in Conns, b \in 1..MaxBookings : cancel_booking(c, b)

SpecBooking == BookingInit /\ [][BookingNext]_vars

(***************************************************************************)
(* Claims about BookingDatabaseManager                                     *)
(***************************************************************************)
\* the passengers of the bookings of flight f that create_reservation made
\* and that are not cancelled
RECURSIVE HeldSeats(_, _)
HeldSeats(f, n) ==
    IF n = 0 THEN 0
    ELSE HeldSeats(f, n - 1)
         + (IF /\ bookings[n].flight_id = f
               /\ ~bookings[n].seeded
               /\ bookings[n].status # "cancelled"
            THEN bookings[n].passengers ELSE 0)

\* C29: for every flight, available_seats plus the passengers of its
\* bookings made by create_reservation and not cancelled equals the initial
\* number of seats; the seats of a booking are released at most once, and a
\* booking that was cancelled stays cancelled.
C29_SeatsConserved ==
    /\ \A f \in FlightIds :
          flights[f] + HeldSeats(f, Len(bookings)) = InitialSeats
    /\ \A b \in DOMAIN bookings :
          /\ bookings[b].released <= 1
          /\ bookings[b].released > 0 => bookings[b].status = "cancelled"

\* C30: available_seats is never negative, and a create_reservation that
\* finds fewer seats than passengers fails and changes no table, also when
\* the calls run concurrently on separate connections.
C30_SeatsNeverNegative ==
    /\ [](\A f \in FlightIds : flights[f] >= 0)
    /\ [][\A c \in Conns :
             (conns[c].op = "idle" /\ conns'[c].result = "Not enough seats"
              /\ conns'[c] # conns[c])
                 => UNCHANGED <<flights, bookings>>]_vars

(***************************************************************************)
(* The management routes: register_agent, update_agent, delete_agent and   *)
(* toggle_agent, with the catalog store (agent_service) and the search     *)
(* index (faiss_service) they write to                                     *)
(***************************************************************************)
Slots == 1..NumRequests

\* no card: what get_agent_info returns for a path the store does not hold
NoCard == [path |-> "none"]

\* no caller
NoUser == [username |-> "none"]

\* a request slot that runs nothing
IdleRequest ==
    [op |-> "none", pc |-> "idle", path |-> "none", user_context |-> NoUser,
     existing |-> NoCard, card |-> NoCard, is_enabled |-> FALSE, status |-> 0]

\* an AgentCard of the catalog with the fields the management routes set
RegisteredCard(path, description, registered_by, registered_at, is_enabled, num_stars) ==
    AgentCard(path, "public", registered_by, <<>>, <<>>, <<>>, "unverified")
    @@ [name |-> "agent", description |-> description,
        registered_at |-> registered_at, is_enabled |-> is_enabled,
        num_stars |-> num_stars]

\* agent_service.get_agent_info(path): the card stored under the path
get_agent_info(agents, path) ==
    IF path \in PathsOf(agents) THEN AgentMap(agents)[path] ELSE NoCard

\* the store after agent_service.register_agent(card): the card is stored
\* under its path, in place of a card the path already has
SaveCard(agents, card) ==
    IF card.path \in PathsOf(agents)
    THEN [i \in 1..Len(agents) |->
             IF agents[i].path = card.path THEN card ELSE agents[i]]
    ELSE Append(agents, card)

\* the store after agent_service.remove_agent(path)
RemoveCard(agents, path) == SelectSeq(agents, LAMBDA a : a.path # path)

\* the enabled states after a card was saved: a new path starts disabled
EnabledAfterSave(en, path) ==
    IF path \in DOMAIN en THEN en ELSE en @@ [p \in {path} |-> FALSE]

\* auth.dependencies.user_has_ui_permission_for_service: the permission
\* lists the service by name or lists "all"
user_has_ui_permission_for_service(permission, service_name, ui_permissions) ==
    /\ permission \in DOMAIN ui_permissions
    /\ \/ "all" \in ToSet(ui_permissions[permission])
       \/ service_name \in ToSet(ui_permissions[permission])

\* lines 83-113: TRUE when _check_agent_permission returns, FALSE when it
\* raises 403
_check_agent_permission(permission, agent_name, user_context) ==
    user_has_ui_permission_for_service(permission, agent_name,
                                       Get(user_context, "ui_permissions", <<>>))

\* a guard that lets every caller modify every agent
MayModifyAnyone(existing_agent, user_context) == TRUE

\* lines 550-552 and 662-664, negated: the caller is an admin or registered
\* the agent
MayModify(existing_agent, user_context) ==
    user_context["is_admin"]
    \/ existing_agent.registered_by = user_context["username"]

\* the card of lines 226-241: registered_by is the caller; the schema sets
\* registered_at to the time of construction and starts the card disabled,
\* with no stars
NewCard(path, request, user_context, t) ==
    RegisteredCard(path, request.description, user_context["username"], t, FALSE, 0)

\* an update that stamps the card with the time of the update
UpdatedCardRestamped(path, request, existing_agent, t) ==
    RegisteredCard(path, request.description, existing_agent.registered_by,
                   t, existing_agent.is_enabled, existing_agent.num_stars)

\* lines 565-583: the updated card takes registered_by, registered_at,
\* is_enabled and num_stars from the existing card, the rest from the request
UpdatedCard(path, request, existing_agent, t) ==
    RegisteredCard(path, request.description, existing_agent.registered_by,
                   existing_agent.registered_at, existing_agent.is_enabled,
                   existing_agent.num_stars)

\* the index entry add_or_update_entity writes
IndexEntry(card, is_enabled) ==
    [description |-> card.description, is_enabled |-> is_enabled]

\* a request that has answered with the status; its locals are gone
Answered(req, status) ==
    [IdleRequest EXCEPT !.op = req.op, !.pc = "done", !.path = req.path,
                        !.user_context = req.user_context, !.status = status]

\* a new request runs in the first slot that never ran one, or else in the
\* first slot whose request has answered
Free(r) ==
    /\ regClock < MaxStarted
    /\ LET unused == {s \in Slots : reqs[s].pc = "idle"}
           answered == {s \in Slots : reqs[s].pc = "done"}
       IN  IF unused # {}
           THEN r \in unused /\ \A s \in unused : r <= s
           ELSE r \in answered /\ \A s \in answered : r <= s

\* lines 184-244: register_agent up to the await of validate_agent_card:
\* 403 without publish_agent permission, 409 when the normalized path is
\* already in the store
register_agent(r, request, user_context) ==
    /\ Free(r)
    /\ regClock' = regClock + 1
    /\ LET ui_permissions == Get(user_context, "ui_permissions", <<>>)
           publish_permissions == Get(ui_permissions, "publish_agent", <<>>)
           path == _normalize_path(request.path)
           req == [IdleRequest EXCEPT !.op = "register", !.path = path,
                                      !.user_context = user_context]
       IN  reqs' = [reqs EXCEPT ![r] =
                       IF publish_permissions = <<>> THEN Answered(req, 403)
                       ELSE IF get_agent_info(catalog, path) # NoCard
                            THEN Answered(req, 409)
                       ELSE [req EXCEPT !.pc = "validating",
                                        !.card = NewCard(path, request,
                                                         user_context,
                                                         regClock + 1)]]
    /\ UNCHANGED <<catalog, enabled, resp, index>>
    /\ UNCHANGED <<tokenVars, bookingVars>>

\* lines 244-286: validate_agent_card has returned: 422 when the card is not
\* valid; agent_service.register_agent stores the card, 500 when it fails;
\* the route reads the enabled state and awaits add_or_update_entity
register_agent_save(r, is_valid, success) ==
    /\ reqs[r].op = "register" /\ reqs[r].pc = "validating"
    /\ IF ~is_valid
       THEN /\ reqs' = [reqs EXCEPT ![r] = Answered(@, 422)]
            /\ UNCHANGED <<catalog, enabled>>
       ELSE IF ~success
       THEN /\ reqs' = [reqs EXCEPT ![r] = Answered(@, 500)]
            /\ UNCHANGED <<catalog, enabled>>
       ELSE /\ catalog' = SaveCard(catalog, reqs[r].card)
            /\ enabled' = EnabledAfterSave(enabled, reqs[r].path)
            /\ reqs' = [reqs EXCEPT ![r].pc = "indexing",
                                    ![r].status = 201,
                                    ![r].is_enabled = enabled'[reqs[r].path]]
    /\ UNCHANGED <<resp, index, regClock>>
    /\ UNCHANGED <<tokenVars, bookingVars>>

\* lines 539-587: update_agent up to the await of validate_agent_card: 404
\* for an unknown path, 403 without modify_service permission or when the
\* caller is neither an admin nor the one who registered the agent
update_agent(r, raw_path, request, user_context) ==
    /\ Free(r)
    /\ regClock' = regClock + 1
    /\ LET path == _normalize_path(raw_path)
           existing_agent == get_agent_info(catalog, path)
           req == [IdleRequest EXCEPT !.op = "update", !.path = path,
                                      !.user_context = user_context,
                                      !.existing = existing_agent]
       IN  reqs' = [reqs EXCEPT ![r] =
                       IF existing_agent = NoCard THEN Answered(req, 404)
                       ELSE IF ~_check_agent_permission("modify_service",
                                                        existing_agent.name,
                                                        user_context)
                            THEN Answered(req, 403)
                       ELSE IF ~MayModify(existing_agent, user_context)
                            THEN Answered(req, 403)
                       ELSE [req EXCEPT !.pc = "validating",
                                        !.card = UpdatedCard(path, request,
                                                             existing_agent,
                                                             regClock + 1)]]
    /\ UNCHANGED <<catalog, enabled, resp, index>>
    /\ UNCHANGED <<tokenVars, bookingVars>>

\* lines 587-623: validate_agent_card has returned: 422 when the card is not
\* valid; agent_service.update_agent replaces the card of the path, 500 when
\* it fails (it fails for a path the store no longer holds); the route reads
\* the enabled state and awaits add_or_update_entity
update_agent_save(r, is_valid, success) ==
    /\ reqs[r].op = "update" /\ reqs[r].pc = "validating"
    /\ IF ~is_valid
       THEN reqs' = [reqs EXCEPT ![r] = Answered(@, 422)]
       ELSE IF ~success \/ reqs[r].path \notin PathsOf(catalog)
       THEN reqs' = [reqs EXCEPT ![r] = Answered(@, 500)]
       ELSE reqs' = [reqs EXCEPT ![r].pc = "indexing",
                                 ![r].status = 200,
                                 ![r].is_enabled = enabled[reqs[r].path]]
    /\ catalog' = IF reqs'[r].pc = "indexing"
                  THEN SaveCard(catalog, reqs[r].card) ELSE catalog
    /\ UNCHANGED <<enabled, resp, index, regClock>>
    /\ UNCHANGED <<tokenVars, bookingVars>>

\* lines 653-684: delete_agent up to the await of remove_entity: 404 for an
\* unknown path, 403 when the caller is neither an admin nor the one who
\* registered the agent, 500 when agent_service.remove_agent fails
delete_agent(r, raw_path, user_context, success) ==
    /\ Free(r)
    /\ regClock' = regClock + 1
    /\ LET path == _normalize_path(raw_path)
           existing_agent == get_agent_info(catalog, path)
           req == [IdleRequest EXCEPT !.op = "delete", !.path = path,
                                      !.user_context = user_context,
                                      !.existing = existing_agent]
           st == IF existing_agent = NoCard THEN 404
                 ELSE IF ~MayModify(existing_agent, user_context) THEN 403
                 ELSE IF ~success THEN 500
                 ELSE 204
       IN  /\ reqs' = [reqs EXCEPT ![r] =
                          IF st = 204
                          THEN [req EXCEPT !.pc = "unindexing", !.status = 204]
                          ELSE Answered(req, st)]
           /\ catalog' = IF st = 204 THEN RemoveCard(catalog, path) ELSE catalog
           /\ enabled' = IF st = 204
                         THEN [p \in DOMAIN enabled \ {path} |-> enabled[p]]
                         ELSE enabled
    /\ UNCHANGED <<resp, index>>
    /\ UNCHANGED <<tokenVars, bookingVars>>

\* the card after agent_service.toggle_agent(path, enabled)
ToggledCard(card, en) == [card EXCEPT !.is_enabled = en]

\* lines 718-744: toggle_agent up to the await of add_or_update_entity: 404
\* for an unknown path, 403 without toggle_service permission, 500 when
\* agent_service.toggle_agent fails; the index is given the card the route
\* read before the toggle and the requested state
toggle_agent(r, raw_path, en, user_context, success) ==
    /\ Free(r)
    /\ regClock' = regClock + 1
    /\ LET path == _normalize_path(raw_path)
           agent_card == get_agent_info(catalog, path)
           req == [IdleRequest EXCEPT !.op = "toggle", !.path = path,
                                      !.user_context = user_context,
                                      !.existing = agent_card]
           st == IF agent_card = NoCard THEN 404
                 ELSE IF ~_check_agent_permission("toggle_service",
                                                  agent_card.name, user_context)
                      THEN 403
                 ELSE IF ~success THEN 500
                 ELSE 200
       IN  /\ reqs' = [reqs EXCEPT ![r] =
                          IF st = 200
                          THEN [req EXCEPT !.pc = "indexing", !.status = 200,
                                           !.card = agent_card,
                                           !.is_enabled = en]
                          ELSE Answered(req, st)]
           /\ catalog' = IF st = 200
                         THEN SaveCard(catalog, ToggledCard(agent_card, en))
                         ELSE catalog
           /\ enabled' = IF st = 200
                         THEN [enabled EXCEPT ![path] = en]
                         ELSE enabled
    /\ UNCHANGED <<resp, index>>
    /\ UNCHANGED <<tokenVars, bookingVars>>

\* faiss_service.add_or_update_entity(path, card, "a2a_agent", is_enabled)
\* completes: the entry of the path is written and the route answers
add_or_update_entity(r) ==
    /\ reqs[r].pc = "indexing"
    /\ index' = [p \in DOMAIN index \cup {reqs[r].path} |->
                    IF p = reqs[r].path
                    THEN IndexEntry(reqs[r].card, reqs[r].is_enabled)
                    ELSE index[p]]
    /\ reqs' = [reqs EXCEPT ![r] = Answered(@, @.status)]
    /\ UNCHANGED <<catalog, enabled, resp, regClock>>
    /\ UNCHANGED <<tokenVars, bookingVars>>

\* faiss_service.remove_entity(path) completes: the entry of the path is
\* gone and delete_agent answers 204
remove_entity(r) ==
    /\ reqs[r].pc = "unindexing"
    /\ index' = [p \in DOMAIN index \ {reqs[r].path} |-> index[p]]
    /\ reqs' = [reqs EXCEPT ![r] = Answered(@, @.status)]
    /\ UNCHANGED <<catalog, enabled, resp, regClock>>
    /\ UNCHANGED <<tokenVars, bookingVars>>

\* faiss_service.search_entities(query, ["a2a_agent"], enabled_only = True,
\* max_results): the entries of the index that are enabled, best first
RECURSIVE EnabledHits(_, _)
EnabledHits(idx, paths) ==
    IF paths = <<>> THEN <<>>
    ELSE LET rest == EnabledHits(idx, Tail(paths))
         IN  IF Head(paths) \in DOMAIN idx /\ idx[Head(paths)].is_enabled
             THEN <<[path |-> Head(paths), relevance_score |-> 50]>> \o rest
             ELSE rest

search_entities(idx, max_results) ==
    [raises |-> FALSE,
     results |-> SubSeq(EnabledHits(idx, <<"/a", "/b">>), 1,
                        IF Len(EnabledHits(idx, <<"/a", "/b">>)) < max_results
                        THEN Len(EnabledHits(idx, <<"/a", "/b">>))
                        ELSE max_results)]

(***************************************************************************)
(* The registry specification: concurrent management requests and          *)
(* semantic discovery over the index they maintain                         *)
(***************************************************************************)
AllPermissions ==
    [publish_agent |-> <<"all">>, modify_service |-> <<"all">>,
     toggle_service |-> <<"all">>]

Admin == [username |-> "admin", is_admin |-> TRUE, ui_permissions |-> AllPermissions]

Bob == [username |-> "bob", is_admin |-> FALSE, ui_permissions |-> AllPermissions]

\* alice may modify services but neither publish nor toggle
Alice ==
    [username |-> "alice", is_admin |-> FALSE,
     ui_permissions |-> [modify_service |-> <<"agent">>]]

RegistryUsers == {Admin, Bob, Alice}

RegistryPaths == {"a", "/a/"}

RegistrationRequests ==
    {[path |-> p, description |-> "d1"] : p \in RegistryPaths}

\* the store starts empty, or with the agent bob registered at time 0, in
\* either state, with two stars; the index agrees with the store
InitialCard(en) == RegisteredCard("/a", "d0", "bob", 0, en, 2)

RegistryInit ==
    /\ now = 0
    /\ token = NoToken
    /\ token_expires_at = 0
    /\ pc = [c \in Callers |-> "idle"]
    /\ current_time = [c \in Callers |-> 0]
    /\ reqId = [c \in Callers |-> 0]
    /\ ret = [c \in Callers |-> NoToken]
    /\ exchanges = 0
    /\ calls = 0
    /\ winVals = {}
    /\ lastExch = NoExchange
    /\ \E en \in BOOLEAN :
          \/ /\ catalog = <<InitialCard(en)>>
             /\ enabled = [p \in {"/a"} |-> en]
             /\ index = [p \in {"/a"} |-> IndexEntry(InitialCard(en), en)]
          \/ /\ catalog = <<>>
             /\ enabled = <<>>
             /\ index = <<>>
    /\ resp = NoResponse
    /\ reqs = [r \in Slots |-> IdleRequest]
    /\ regClock = 0
    /\ flights = <<>>
    /\ bookings = <<>>
    /\ conns = <<>>

RegistryNext ==
    \/ \E r \in Slots, q \in RegistrationRequests, u \in RegistryUsers : register_agent(r, q, u)
    \/ \E r \in Slots, v \in BOOLEAN, s \in BOOLEAN : register_agent_save(r, v, s)
    \/ \E r \in Slots, p \in RegistryPaths, q \in RegistrationRequests, u \in RegistryUsers : update_agent(r, p, q, u)
    \/ \E r \in Slots, v \in BOOLEAN, s \in BOOLEAN : update_agent_save(r, v, s)
    \/ \E r \in Slots, p \in RegistryPaths, u \in RegistryUsers, s \in BOOLEAN : delete_agent(r, p, u, s)
    \/ \E r \in Slots, p \in RegistryPaths, en \in BOOLEAN, u \in RegistryUsers, s \in BOOLEAN : toggle_agent(r, p, en, u, s)
    \/ \E r \in Slots : add_or_update_entity(r)
    \/ \E r \in Slots : remove_entity(r)
    \/ discover_agents_semantic(Admin, "agents", 1, search_entities(index, 1))

SpecRegistry == RegistryInit /\ [][RegistryNext]_vars

(***************************************************************************)
(* Claims about the management routes                                      *)
(***************************************************************************)
\* the request of slot r takes a step
Acts(r) == reqs'[r] # reqs[r]

\* the step is the first one of the request of slot r
Begins(r) == Acts(r) /\ reqs[r].pc \in {"idle", "done"}

NoRequestInProgress == \A r \in Slots : reqs[r].pc \in {"idle", "done"}

\* C24: a step of update_agent or toggle_agent on a descriptor that no other
\* request changed since the call read it keeps the descriptor and its
\* registered_at; a step of update_agent also keeps its registered_by, its
\* enabled state and its num_stars.
C24_RegisteredAtImmutable ==
    [][\A r \in Slots :
          LET p == reqs'[r].path
              old == get_agent_info(catalog, p)
              new == get_agent_info(catalog', p)
          IN  (/\ Acts(r)
               /\ reqs'[r].op \in {"update", "toggle"}
               /\ old # NoCard
               /\ ~Begins(r) => reqs[r].existing = old)
                  => /\ new # NoCard
                     /\ new.registered_at = old.registered_at
                     /\ reqs'[r].op = "update" =>
                           /\ new.registered_by = old.registered_by
                           /\ new.num_stars = old.num_stars
                           /\ new.is_enabled = old.is_enabled
                           /\ enabled'[p] = enabled[p]]_vars

\* an update and a toggle of the initial agent have both gone through, and
\* the agent still has the registered_at, owner and stars it started with
C24_Witness ==
    /\ \E r, s \in Slots :
          /\ reqs[r].op = "update" /\ reqs[r].pc = "done" /\ reqs[r].status = 200
          /\ reqs[s].op = "toggle" /\ reqs[s].pc = "done" /\ reqs[s].status = 200
    /\ Len(catalog) = 1
    /\ catalog[1].description = "d1"
    /\ catalog[1].registered_at = 0
    /\ catalog[1].registered_by = "bob"
    /\ catalog[1].num_stars = 2

\* C25: register_agent for a normalized path the store already holds answers
\* 409 and changes neither the store nor the index, and a registration goes
\* through only for a path the store does not hold, so that of the concurrent
\* registrations of one path at most one succeeds.
C25_PathStaysUnique ==
    [][\A r \in Slots :
          /\ (/\ Begins(r)
              /\ reqs'[r].op = "register"
              /\ Get(reqs'[r].user_context.ui_permissions, "publish_agent", <<>>) # <<>>
              /\ reqs'[r].path \in PathsOf(catalog))
                 => /\ reqs'[r].status = 409
                    /\ UNCHANGED <<catalog, enabled, index>>
          /\ (/\ Acts(r)
              /\ reqs[r].op = "register"
              /\ reqs[r].pc = "validating"
              /\ reqs'[r].status = 201)
                 => reqs[r].path \notin PathsOf(catalog)]_vars

\* C26: a step of update_agent or delete_agent changes the store or the index
\* only for an admin or for the user who registered the agent the call read;
\* any other caller is answered 403 at once and the store, the enabled
\* states and the index stay as they are.
C26_OnlyAdminOrOwnerModifies ==
    [][\A r \in Slots :
          LET u == reqs'[r].user_context
              old == IF Begins(r) THEN get_agent_info(catalog, reqs'[r].path)
                     ELSE reqs[r].existing
          IN  (Acts(r) /\ reqs'[r].op \in {"update", "delete"} /\ old # NoCard)
                  => /\ (~u.is_admin /\ old.registered_by # u.username)
                           => /\ reqs'[r].pc = "done"
                              /\ reqs'[r].status = 403
                              /\ UNCHANGED <<catalog, enabled, index>>
                     /\ <<catalog, enabled, index>>' # <<catalog, enabled, index>>
                           => \/ u.is_admin
                              \/ old.registered_by = u.username]_vars

\* alice, who may modify services but registered nothing, was refused an
\* update and a delete of bob's agent, which is still as it was
C26_Witness ==
    /\ \E r, s \in Slots :
          /\ reqs[r] = Answered([IdleRequest EXCEPT !.op = "update", !.path = "/a", !.user_context = Alice], 403)
          /\ reqs[s] = Answered([IdleRequest EXCEPT !.op = "delete", !.path = "/a", !.user_context = Alice], 403)
    /\ \E en \in BOOLEAN :
          /\ catalog = <<InitialCard(en)>>
          /\ enabled = [p \in {"/a"} |-> en]
          /\ index = [p \in {"/a"} |-> IndexEntry(InitialCard(en), en)]

\* C28: when no management request is in progress the index holds, for every
\* path of the store, the enabled state the store holds, and a semantic
\* discovery answered then returns no agent that is disabled in the store.
C28_IndexAgreesWithStore ==
    /\ [](NoRequestInProgress =>
             \A p \in DOMAIN index \cap DOMAIN enabled :
                 index[p].is_enabled = enabled[p])
    /\ [][(/\ NoRequestInProgress
           /\ resp = NoResponse
           /\ resp' # NoResponse)
             => \A i \in 1..Len(resp'.agents) :
                   /\ resp'.agents[i].path \in DOMAIN enabled
                   /\ enabled[resp'.agents[i].path]]_vars

=============================================================================
